---- MODULE Spec2Model ----
(***************************************************************************)
(* Credential lifecycle engine of pollux: the credentials actor            *)
(* (src/service/credentials_actor.rs), the in-memory CredentialManager it  *)
(* owns, the SQLite credential store (src/db/sqlite.rs) and the refresh    *)
(* jobs and submission tasks it spawns.                                    *)
(*                                                                         *)
(* Time is in seconds.  Access tokens are small integers, 0 = absent.      *)
(* Project ids are 1..NProj; the store assigns row ids 1, 2, ... .         *)
(***************************************************************************)
EXTENDS Integers, Sequences, FiniteSets, TLC

----------------------------------------------------------------------------
(* Bounds of the model *)

NProj == 2            \* distinct project ids that are ever submitted
TickStep == 10        \* granularity of the clock
TokenLife == 50       \* expires_in granted by the token endpoint
MaxEvents == 3        \* events that bring a new value into the state: clock
                      \* ticks, refresh jobs, submitted credentials and
                      \* rate-limit reports, all together
MaxPool == 3          \* credentials of the round-robin pool
MaxReplies == 7       \* GetCredential replies recorded per model
MaxConc == 2          \* largest configured refresh_concurrency
MaxArrivals == 12     \* jobs sent to the pipeline
MaxRefills == 2       \* permits that come back to the limiter
ChanCap == 3          \* capacity of the job channel (1000 in the program)

(* Configuration and program constants *)

queue_keys == {"pro", "flash"}
SKEW == 30
BURST == 10           \* Quota::per_minute(10): permits of a full limiter
REFILL_SECS == 60 \div BURST

Projects == 1..NProj
CredIds == 1..NProj
Durations == {0, 2 * TickStep}

VARIABLES
  now,        \* wall clock
  rows,       \* credentials table: sequence of rows, index = id
  manager,    \* CredentialManager: records, queues, cooldowns, refreshing
  jobs,       \* Maintain refresh jobs in the pipeline, not yet answered
  tasks,      \* submission tasks waiting for their refresh job
  inbox,      \* RefreshComplete / ActivateCredential casts not yet handled
  seq,        \* number of refresh jobs enqueued so far
  spent,      \* number of events counted by MaxEvents so far
  pipeOpen,   \* the receiver of refresh_tx is alive
  banned,     \* history: ids for which ReportBaned was handled
  orphans,    \* history: jobs that were in flight when their id was banned
  rl,         \* history: one observed ReportRateLimit
  riJob,      \* history: per id, jobs enqueued by the latest two ReportInvalid
  rcTok,      \* history: per id, token installed by the last RefreshComplete
  hist,       \* history: replies of a run of GetCredential messages
  pipe        \* the refresh pipeline of GoogleOauthService, see SpecPipe

cvars == <<now, rows, manager, jobs, tasks, inbox, seq, spent, pipeOpen>>

vars == <<now, rows, manager, jobs, tasks, inbox, seq, spent, pipeOpen,
          banned, orphans, rl, riJob, rcTok, hist, pipe>>

----------------------------------------------------------------------------
(* Sequences *)

InSeq(x, s) == \E i \in 1..Len(s) : s[i] = x

Without(s, x) == SelectSeq(s, LAMBDA y : y # x)

Restrict(f, S) == [x \in S |-> f[x]]

----------------------------------------------------------------------------
(* Credential store (db/sqlite.rs).  A row is [cred, status]; the row id   *)
(* is its index, AUTOINCREMENT never reuses one and no row is deleted.     *)

upsert_id(rs, cred) ==
  IF \E i \in 1..Len(rs) : rs[i].cred.pid = cred.pid
    THEN CHOOSE i \in 1..Len(rs) : rs[i].cred.pid = cred.pid
    ELSE Len(rs) + 1

upsert(rs, cred, status) ==
  LET id == upsert_id(rs, cred) IN
  IF id <= Len(rs)
    THEN [rs EXCEPT ![id] = [cred |-> cred, status |-> status]]
    ELSE Append(rs, [cred |-> cred, status |-> status])

set_status(rs, id, status) ==
  IF id \in 1..Len(rs) THEN [rs EXCEPT ![id].status = status] ELSE rs

\* UPDATE ... WHERE id = ?; the UNIQUE(project_id) constraint rejects the
\* statement when another row already holds the project id.
update_by_id(rs, id, cred, status) ==
  IF id \notin 1..Len(rs) THEN rs
  ELSE IF \E i \in 1..Len(rs) : i # id /\ rs[i].cred.pid = cred.pid THEN rs
  ELSE [rs EXCEPT ![id] = [cred |-> cred, status |-> status]]

\* ids of the rows with status = 1, ORDER BY id
RECURSIVE list_active_from(_, _)
list_active_from(rs, i) ==
  IF i > Len(rs) THEN <<>>
  ELSE IF rs[i].status THEN <<i>> \o list_active_from(rs, i + 1)
  ELSE list_active_from(rs, i + 1)

\* list_active without the WHERE clause: every row, whatever its status
list_active_any_status(rs) == [i \in 1..Len(rs) |-> i]

list_active(rs) == list_active_from(rs, 1)

----------------------------------------------------------------------------
(* CredentialManager *)

EmptyManager ==
  [records |-> <<>>,
   queues |-> [m \in queue_keys |-> <<>>],
   cooldowns |-> <<>>,
   refreshing |-> {}]

contains(mgr, id) == id \in DOMAIN mgr.records

is_refreshing(mgr, id) == id \in mgr.refreshing

\* add_credential that also forgets the cooldowns of the id
add_credential_clears_cooldowns(mgr, id, cred) ==
  [mgr EXCEPT
     !.records = [x \in DOMAIN mgr.records \cup {id} |->
                    IF x = id THEN cred ELSE mgr.records[x]],
     !.queues = [m \in queue_keys |->
                    IF InSeq(id, mgr.queues[m]) THEN mgr.queues[m]
                    ELSE Append(mgr.queues[m], id)],
     !.cooldowns = [k \in {c \in DOMAIN mgr.cooldowns : c[1] # id} |->
                      mgr.cooldowns[k]],
     !.refreshing = mgr.refreshing \ {id}]

\* add_credential that appends the id to every queue, queued or not
add_credential_always_append(mgr, id, cred) ==
  [mgr EXCEPT
     !.records = [x \in DOMAIN mgr.records \cup {id} |->
                    IF x = id THEN cred ELSE mgr.records[x]],
     !.queues = [m \in queue_keys |-> Append(mgr.queues[m], id)],
     !.refreshing = mgr.refreshing \ {id}]

add_credential(mgr, id, cred) ==
  [mgr EXCEPT
     !.records = [x \in DOMAIN mgr.records \cup {id} |->
                    IF x = id THEN cred ELSE mgr.records[x]],
     !.queues = [m \in queue_keys |->
                    IF InSeq(id, mgr.queues[m]) THEN mgr.queues[m]
                    ELSE Append(mgr.queues[m], id)],
     !.refreshing = mgr.refreshing \ {id}]

delete_credential(mgr, id) ==
  [records |-> Restrict(mgr.records, DOMAIN mgr.records \ {id}),
   queues |-> [m \in queue_keys |-> Without(mgr.queues[m], id)],
   cooldowns |-> Restrict(mgr.cooldowns,
                    {k \in DOMAIN mgr.cooldowns : k[1] # id}),
   refreshing |-> mgr.refreshing \ {id}]

mark_refreshing(mgr, id) ==
  [mgr EXCEPT
     !.queues = [m \in queue_keys |-> Without(mgr.queues[m], id)],
     !.refreshing = mgr.refreshing \cup {id}]

report_rate_limit(mgr, id, m, cooldown, t) ==
  [mgr EXCEPT
     !.cooldowns = [k \in DOMAIN mgr.cooldowns \cup {<<id, m>>} |->
                      IF k = <<id, m>> THEN t + cooldown
                      ELSE mgr.cooldowns[k]],
     !.queues = [q \in queue_keys |->
                   IF q = m /\ mgr.queues[q] # <<>> /\ Head(mgr.queues[q]) = id
                     THEN Tail(mgr.queues[q])
                     ELSE mgr.queues[q]]]

CoolingDown(mgr, id, m, t) ==
  <<id, m>> \in DOMAIN mgr.cooldowns /\ t < mgr.cooldowns[<<id, m>>]

Usable(cred, t) == cred.at # 0 /\ t < cred.exp - SKEW

NoAssigned == [id |-> 0, project_id |-> 0, access_token |-> 0, target_model |-> ""]

\* scan of queue m from head to tail; rest is the part not yet examined
RECURSIVE scan(_, _, _, _, _)
scan(mgr, m, t, rest, refresh_ids) ==
  IF rest = <<>>
    THEN [manager |-> mgr, assigned |-> NoAssigned, refresh_ids |-> refresh_ids]
  ELSE
    LET id == Head(rest) IN
    IF CoolingDown(mgr, id, m, t)
      THEN scan(mgr, m, t, Tail(rest), refresh_ids)
    ELSE
      LET m1 == [mgr EXCEPT !.cooldowns =
                   Restrict(mgr.cooldowns, DOMAIN mgr.cooldowns \ {<<id, m>>})]
          cred == m1.records[id]
      IN
      IF ~Usable(cred, t)
        THEN scan([m1 EXCEPT !.queues[m] = Without(m1.queues[m], id)],
                  m, t, Tail(rest), Append(refresh_ids, id))
        ELSE [manager |-> [m1 EXCEPT !.queues[m] =
                                Append(Without(m1.queues[m], id), id)],
              assigned |-> [id |-> id, project_id |-> cred.pid,
                            access_token |-> cred.at, target_model |-> m],
              refresh_ids |-> refresh_ids]

get_assigned(mgr, m, t) == scan(mgr, m, t, mgr.queues[m], <<>>)

----------------------------------------------------------------------------
(* Refresh jobs.  The n-th job ever enqueued mints token NProj + n when it *)
(* succeeds, so the outcomes of distinct jobs are distinguishable.         *)

TokOf(n) == NProj + n

Refreshed(cred, n, t) == [cred EXCEPT !.at = TokOf(n), !.exp = t + TokenLife]

Outcomes == {"ok", "oauth", "transient"}

\* CredentialOps::enqueue_refresh: the send fails once the receiver is gone
enqueue_refresh(js, n, id, cred) ==
  js \cup {[n |-> n, id |-> id, cred |-> cred]}

----------------------------------------------------------------------------
(* The actor's handlers, as functions of the part of the state they own:   *)
(* st = [manager, jobs, seq].                                              *)

handle_report_invalid(st, id, open) ==
  IF is_refreshing(st.manager, id) THEN st
  ELSE IF ~contains(st.manager, id) THEN st
  ELSE
    LET current == st.manager.records[id]
        marked == mark_refreshing(st.manager, id)
    IN
    IF open
      THEN [manager |-> marked,
            jobs |-> enqueue_refresh(st.jobs, st.seq + 1, id, current),
            seq |-> st.seq + 1]
      ELSE [st EXCEPT !.manager = add_credential(marked, id, current)]

RECURSIVE report_each(_, _, _)
report_each(st, ids, open) ==
  IF ids = <<>> THEN st
  ELSE report_each(handle_report_invalid(st, Head(ids), open), Tail(ids), open)

\* GetCredential that drops the refresh_ids instead of reporting them
handle_get_credential_no_report(st, m, t, open) ==
  LET assignment == get_assigned(st.manager, m, t)
  IN [st |-> [st EXCEPT !.manager = assignment.manager],
      reply |-> assignment.assigned,
      refresh_ids |-> assignment.refresh_ids]

\* GetCredential that replies from a copy of the manager and keeps the
\* queues as they were
handle_get_credential_no_rotation(st, m, t, open) ==
  LET assignment == get_assigned(st.manager, m, t)
  IN [st |-> st, reply |-> assignment.assigned,
      refresh_ids |-> assignment.refresh_ids]

\* the state after the message and the reply sent on the reply port
handle_get_credential(st, m, t, open) ==
  LET assignment == get_assigned(st.manager, m, t)
      st1 == report_each([st EXCEPT !.manager = assignment.manager],
                         assignment.refresh_ids, open)
  IN [st |-> st1, reply |-> assignment.assigned,
      refresh_ids |-> assignment.refresh_ids]

\* ReportRateLimit that cools the credential down on every model
RECURSIVE limit_each(_, _, _, _, _)
limit_each(mgr, id, cooldown, ms, t) ==
  IF ms = {} THEN mgr
  ELSE LET m == CHOOSE x \in ms : TRUE IN
       limit_each(report_rate_limit(mgr, id, m, cooldown, t), id, cooldown,
                  ms \ {m}, t)

handle_report_rate_limit_all_models(mgr, id, cooldown, m, t) ==
  IF ~contains(mgr, id) THEN mgr
  ELSE limit_each(mgr, id, cooldown, queue_keys, t)

\* ReportRateLimit that records the cooldown without its duration
handle_report_rate_limit_no_duration(mgr, id, cooldown, m, t) ==
  IF ~contains(mgr, id) THEN mgr
  ELSE report_rate_limit(mgr, id, m, 0, t)

handle_report_rate_limit(mgr, id, cooldown, m, t) ==
  IF ~contains(mgr, id) THEN mgr
  ELSE report_rate_limit(mgr, id, m, cooldown, t)

\* ReportBaned that forgets the record but leaves the queues alone
handle_report_baned_record_only(mgr, rs, id) ==
  [manager |-> [mgr EXCEPT !.records =
                  Restrict(mgr.records, DOMAIN mgr.records \ {id})],
   rows |-> set_status(rs, id, FALSE)]

\* manager and table after ReportBaned
handle_report_baned(mgr, rs, id) ==
  [manager |-> delete_credential(mgr, id), rows |-> set_status(rs, id, FALSE)]

\* RefreshComplete that re-enqueues the credential it already holds
refresh_complete_keeps_old(mgr, rs, id, res, updated) ==
  IF ~is_refreshing(mgr, id) THEN [manager |-> mgr, rows |-> rs]
  ELSE IF res = "oauth"
    THEN [manager |-> delete_credential(mgr, id),
          rows |-> set_status(rs, id, FALSE)]
  ELSE [manager |-> IF contains(mgr, id)
                      THEN add_credential(mgr, id, mgr.records[id])
                      ELSE mgr,
        rows |-> rs]

\* RefreshComplete that keeps the credential whatever the error
refresh_complete_keeps_on_oauth(mgr, rs, id, res, updated) ==
  IF ~is_refreshing(mgr, id) THEN [manager |-> mgr, rows |-> rs]
  ELSE IF res = "ok"
    THEN [manager |-> add_credential(mgr, id, updated),
          rows |-> update_by_id(rs, id, updated, TRUE)]
  ELSE [manager |-> IF contains(mgr, id)
                      THEN add_credential(mgr, id, mgr.records[id])
                      ELSE mgr,
        rows |-> rs]

\* RefreshComplete that removes the credential whatever the error
refresh_complete_deletes_on_error(mgr, rs, id, res, updated) ==
  IF ~is_refreshing(mgr, id) THEN [manager |-> mgr, rows |-> rs]
  ELSE IF res = "ok"
    THEN [manager |-> add_credential(mgr, id, updated),
          rows |-> update_by_id(rs, id, updated, TRUE)]
  ELSE [manager |-> delete_credential(mgr, id),
        rows |-> set_status(rs, id, FALSE)]

\* RefreshComplete that leaves the credential alone after a transient error
refresh_complete_drops_transient(mgr, rs, id, res, updated) ==
  IF ~is_refreshing(mgr, id) THEN [manager |-> mgr, rows |-> rs]
  ELSE IF res = "ok"
    THEN [manager |-> add_credential(mgr, id, updated),
          rows |-> update_by_id(rs, id, updated, TRUE)]
  ELSE IF res = "oauth"
    THEN [manager |-> delete_credential(mgr, id),
          rows |-> set_status(rs, id, FALSE)]
  ELSE [manager |-> mgr, rows |-> rs]

\* manager and table after RefreshComplete{id, result}
refresh_complete(mgr, rs, id, res, updated) ==
  IF ~is_refreshing(mgr, id) THEN [manager |-> mgr, rows |-> rs]
  ELSE IF res = "ok"
    THEN [manager |-> add_credential(mgr, id, updated),
          rows |-> update_by_id(rs, id, updated, TRUE)]
  ELSE IF res = "oauth"
    THEN [manager |-> delete_credential(mgr, id),
          rows |-> set_status(rs, id, FALSE)]
  ELSE [manager |-> IF contains(mgr, id)
                      THEN add_credential(mgr, id, mgr.records[id])
                      ELSE mgr,
        rows |-> rs]

\* ActivateCredential that appends the id to every queue, queued or not
activate_credential_appends(mgr, id, credential) ==
  add_credential_always_append(mgr, id, credential)

\* ActivateCredential that also forgets the cooldowns of the id
activate_credential_lifts_cooldowns(mgr, id, credential) ==
  add_credential_clears_cooldowns(mgr, id, credential)

activate_credential(mgr, id, credential) == add_credential(mgr, id, credential)

\* pre_start: the manager rebuilt from the active rows, in id order
RECURSIVE load_rows(_, _, _)
load_rows(mgr, rs, ids) ==
  IF ids = <<>> THEN mgr
  ELSE load_rows(add_credential(mgr, Head(ids), rs[Head(ids)].cred), rs, Tail(ids))

pre_start(rs) == load_rows(EmptyManager, rs, list_active(rs))

----------------------------------------------------------------------------
(* The state machine of the program.  These actions constrain the program  *)
(* variables (cvars) only; the specifications below add the history        *)
(* variables their properties read.                                        *)

St == [manager |-> manager, jobs |-> jobs, seq |-> seq]

KnownIds == 1..Len(rows)

InitExpiries == {SKEW + TickStep, TokenLife}

\* an empty table, or one holding a row for every project, each row active
\* (the first one possibly without an access token); the actor started on it
InitProgram ==
  /\ now = 0
  /\ \E k \in {0, NProj}, at1 \in {0, 1}, e \in InitExpiries :
       /\ k = 0 => (at1 = 1 /\ e = TokenLife)
       /\ rows = [i \in 1..k |->
                    [cred |-> [pid |-> i, at |-> IF i = 1 THEN at1 ELSE i,
                               exp |-> e],
                     status |-> TRUE]]
  /\ manager = pre_start(rows)
  /\ jobs = {}
  /\ tasks = {}
  /\ inbox = {}
  /\ seq = 0
  /\ spent = 0
  /\ pipeOpen = TRUE
  /\ pipe = <<>>

GetCredential(m) ==
  LET r == handle_get_credential(St, m, now, pipeOpen) IN
  /\ spent + (r.st.seq - seq) <= MaxEvents
  /\ manager' = r.st.manager
  /\ jobs' = r.st.jobs
  /\ seq' = r.st.seq
  /\ spent' = spent + (r.st.seq - seq)
  /\ UNCHANGED <<now, rows, tasks, inbox, pipeOpen>>

ReportRateLimit(id, m, d) ==
  /\ contains(manager, id) => spent < MaxEvents
  /\ manager' = handle_report_rate_limit(manager, id, d, m, now)
  /\ spent' = IF contains(manager, id) THEN spent + 1 ELSE spent
  /\ UNCHANGED <<now, rows, jobs, tasks, inbox, seq, pipeOpen>>

ReportInvalid(id) ==
  LET st1 == handle_report_invalid(St, id, pipeOpen) IN
  /\ spent + (st1.seq - seq) <= MaxEvents
  /\ manager' = st1.manager
  /\ jobs' = st1.jobs
  /\ seq' = st1.seq
  /\ spent' = spent + (st1.seq - seq)
  /\ UNCHANGED <<now, rows, tasks, inbox, pipeOpen>>

ReportBaned(id) ==
  LET r == handle_report_baned(manager, rows, id) IN
  /\ manager' = r.manager
  /\ rows' = r.rows
  /\ UNCHANGED <<now, jobs, tasks, inbox, seq, spent, pipeOpen>>

\* each credential of the batch gets a task, which enqueues its refresh job
SubmitCredentials(pids) ==
  /\ spent + Cardinality(pids) <= MaxEvents
  /\ spent' = spent + Cardinality(pids)
  /\ IF pipeOpen
       THEN \E order \in [pids -> 1..Cardinality(pids)] :
              /\ \A p, q \in pids : order[p] = order[q] => p = q
              /\ tasks' = tasks \cup
                   {[n |-> seq + order[p],
                     cred |-> [pid |-> p, at |-> 0, exp |-> 0]] : p \in pids}
              /\ seq' = seq + Cardinality(pids)
       ELSE UNCHANGED <<tasks, seq>>
  /\ UNCHANGED <<now, rows, manager, jobs, inbox, pipeOpen>>

\* the pipeline answers a Maintain job; the completion task casts the result
JobFinish(j, res) ==
  /\ j \in jobs
  /\ jobs' = jobs \ {j}
  /\ inbox' = inbox \cup
       {[kind |-> "rc", id |-> j.id, n |-> j.n, res |-> res,
         cred |-> IF res = "ok" THEN Refreshed(j.cred, j.n, now) ELSE j.cred]}
  /\ UNCHANGED <<now, rows, manager, tasks, seq, spent, pipeOpen>>

\* the pipeline answers a submission task's job; on success the task upserts
\* the refreshed credential and casts ActivateCredential
TaskFinish(t, res) ==
  /\ t \in tasks
  /\ tasks' = tasks \ {t}
  /\ IF res = "ok"
       THEN LET refreshed == Refreshed(t.cred, t.n, now) IN
            /\ rows' = upsert(rows, refreshed, TRUE)
            /\ inbox' = inbox \cup
                 {[kind |-> "act", id |-> upsert_id(rows, refreshed), n |-> t.n,
                   res |-> "ok", cred |-> refreshed]}
       ELSE UNCHANGED <<rows, inbox>>
  /\ UNCHANGED <<now, manager, jobs, seq, spent, pipeOpen>>

RefreshComplete(x) ==
  /\ x \in inbox
  /\ x.kind = "rc"
  /\ LET r == refresh_complete(manager, rows, x.id, x.res, x.cred) IN
     /\ manager' = r.manager
     /\ rows' = r.rows
  /\ inbox' = inbox \ {x}
  /\ UNCHANGED <<now, jobs, tasks, seq, spent, pipeOpen>>

ActivateCredential(x) ==
  /\ x \in inbox
  /\ x.kind = "act"
  /\ manager' = activate_credential(manager, x.id, x.cred)
  /\ inbox' = inbox \ {x}
  /\ UNCHANGED <<now, rows, jobs, tasks, seq, spent, pipeOpen>>

\* the pipeline's receiver goes away: every pending answer channel closes
PipelineStop ==
  /\ pipeOpen
  /\ pipeOpen' = FALSE
  /\ jobs' = {}
  /\ tasks' = {}
  /\ inbox' = inbox \cup
       {[kind |-> "rc", id |-> j.id, n |-> j.n, res |-> "transient",
         cred |-> j.cred] : j \in jobs}
  /\ UNCHANGED <<now, rows, manager, seq, spent>>

Tick ==
  /\ spent < MaxEvents
  /\ spent' = spent + 1
  /\ now' = now + TickStep
  /\ UNCHANGED <<rows, manager, jobs, tasks, inbox, seq, pipeOpen>>

----------------------------------------------------------------------------
(* Spec: the program, with the history of bans and refreshes.              *)
(*   banned   ids for which a ReportBaned message was handled              *)
(*   orphans  jobs whose id was banned while they were in flight           *)
(*   riJob    per id, the number of jobs enqueued by the latest two        *)
(*            ReportInvalid messages handled with no RefreshComplete of    *)
(*            that id between them                                         *)
(*   rcTok    per id, the access token installed by the latest applied     *)
(*            RefreshComplete(Ok), 0 once a later refresh result of the    *)
(*            id (an ActivateCredential) replaced it                       *)

NoReport == [id |-> 0, model |-> "", until |-> 0, intact |-> TRUE]

NothingObserved ==
  /\ banned = {}
  /\ orphans = {}
  /\ rl = NoReport
  /\ riJob = [i \in CredIds |-> 0]
  /\ rcTok = [i \in CredIds |-> 0]

NoHistory == NothingObserved /\ hist = <<>>

Init == InitProgram /\ NoHistory

InFlight(id) ==
  {j.n : j \in {k \in jobs : k.id = id}}
    \cup {x.n : x \in {y \in inbox : y.kind = "rc" /\ y.id = id}}

Next ==
  /\ \/ \E m \in queue_keys :
          GetCredential(m) /\ UNCHANGED <<banned, orphans, riJob, rcTok>>
     \/ \E id \in KnownIds, m \in queue_keys, d \in Durations :
          ReportRateLimit(id, m, d) /\ UNCHANGED <<banned, orphans, riJob, rcTok>>
     \/ \E id \in KnownIds :
          /\ ReportInvalid(id)
          /\ riJob' = [riJob EXCEPT ![id] =
                         IF jobs' = jobs THEN 0 ELSE IF @ = 0 THEN 1 ELSE 2]
          /\ UNCHANGED <<banned, orphans, rcTok>>
     \/ \E id \in KnownIds :
          /\ ReportBaned(id)
          /\ banned' = banned \cup {id}
          /\ orphans' = orphans \cup InFlight(id)
          /\ UNCHANGED <<riJob, rcTok>>
     \/ \E pids \in (SUBSET Projects) \ {{}} :
          SubmitCredentials(pids) /\ UNCHANGED <<banned, orphans, riJob, rcTok>>
     \/ \E j \in jobs, res \in Outcomes :
          JobFinish(j, res) /\ UNCHANGED <<banned, orphans, riJob, rcTok>>
     \/ \E t \in tasks, res \in Outcomes :
          TaskFinish(t, res) /\ UNCHANGED <<banned, orphans, riJob, rcTok>>
     \/ \E x \in inbox :
          /\ RefreshComplete(x)
          /\ riJob' = [riJob EXCEPT ![x.id] = 0]
          /\ rcTok' = IF is_refreshing(manager, x.id) /\ x.res = "ok"
                        THEN [rcTok EXCEPT ![x.id] = x.cred.at] ELSE rcTok
          /\ orphans' = orphans \ {x.n}
          /\ UNCHANGED banned
     \/ \E x \in inbox :
          /\ ActivateCredential(x)
          /\ rcTok' = [rcTok EXCEPT ![x.id] = 0]
          /\ UNCHANGED <<banned, orphans, riJob>>
     \/ PipelineStop /\ UNCHANGED <<banned, orphans, riJob, rcTok>>
     \/ Tick /\ UNCHANGED <<banned, orphans, riJob, rcTok>>
  /\ UNCHANGED <<rl, hist, pipe>>

Spec == Init /\ [][Next]_vars

----------------------------------------------------------------------------
(* SpecRate: the program, observing one ReportRateLimit{id, model_name,    *)
(* cooldown} handled for a known id with a positive cooldown:              *)
(*   rl.until   the instant the report was handled plus its cooldown       *)
(*   rl.intact  since then no other ReportRateLimit for the same id and    *)
(*              model was handled and the id was not deleted               *)
(* Any such report may be the observed one; the observation ends when the  *)
(* clock reaches rl.until.                                                 *)

Superseded(id, m) ==
  IF rl.id = id /\ rl.model = m THEN [rl EXCEPT !.intact = FALSE] ELSE rl

Deleted(id) ==
  IF rl.id = id THEN [rl EXCEPT !.intact = FALSE] ELSE rl

NextRate ==
  /\ \/ \E m \in queue_keys : GetCredential(m) /\ UNCHANGED rl
     \/ \E id \in KnownIds, m \in queue_keys, d \in Durations :
          /\ ReportRateLimit(id, m, d)
          /\ IF ~contains(manager, id) THEN UNCHANGED rl
             ELSE \/ rl' = Superseded(id, m)
                  \/ /\ d > 0
                     /\ rl' = [id |-> id, model |-> m, until |-> now + d,
                               intact |-> TRUE]
     \/ \E id \in KnownIds : ReportInvalid(id) /\ UNCHANGED rl
     \/ \E id \in KnownIds : ReportBaned(id) /\ rl' = Deleted(id)
     \/ \E pids \in (SUBSET Projects) \ {{}} :
          SubmitCredentials(pids) /\ UNCHANGED rl
     \/ \E j \in jobs, res \in Outcomes : JobFinish(j, res) /\ UNCHANGED rl
     \/ \E t \in tasks, res \in Outcomes : TaskFinish(t, res) /\ UNCHANGED rl
     \/ \E x \in inbox :
          /\ RefreshComplete(x)
          /\ rl' = IF is_refreshing(manager, x.id) /\ x.res = "oauth"
                     THEN Deleted(x.id) ELSE rl
     \/ \E x \in inbox : ActivateCredential(x) /\ UNCHANGED rl
     \/ PipelineStop /\ UNCHANGED rl
     \/ Tick /\ rl' = IF now' >= rl.until THEN NoReport ELSE rl
  /\ UNCHANGED <<banned, orphans, riJob, rcTok, hist, pipe>>

SpecRate == Init /\ [][NextRate]_vars

----------------------------------------------------------------------------
(* SpecRR: a pool of viable credentials, each queue holding the whole pool *)
(* in some order, and nothing but GetCredential messages.                  *)
(*   hist.start    the queues at the start                                 *)
(*   hist.replies  per model, the ids named by the replies so far          *)

Perms(S) ==
  {q \in [1..Cardinality(S) -> S] : \A i, j \in DOMAIN q : q[i] = q[j] => i = j}

InitRR ==
  /\ now = 0
  /\ \E S \in (SUBSET (1..MaxPool)) \ {{}} :
       /\ rows = [i \in 1..MaxPool |->
                    [cred |-> [pid |-> i, at |-> i, exp |-> TokenLife],
                     status |-> i \in S]]
       /\ \E qs \in [queue_keys -> Perms(S)] :
            manager = [records |-> [i \in S |-> rows[i].cred],
                       queues |-> qs,
                       cooldowns |-> <<>>,
                       refreshing |-> {}]
  /\ jobs = {}
  /\ tasks = {}
  /\ inbox = {}
  /\ seq = 0
  /\ spent = 0
  /\ pipeOpen = TRUE
  /\ pipe = <<>>
  /\ banned = {}
  /\ orphans = {}
  /\ rl = NoReport
  /\ riJob = [i \in CredIds |-> 0]
  /\ rcTok = [i \in CredIds |-> 0]
  /\ hist = [start |-> manager.queues, replies |-> [m \in queue_keys |-> <<>>]]

NextRR ==
  /\ \E m \in queue_keys :
       /\ Len(hist.replies[m]) < MaxReplies
       /\ GetCredential(m)
       /\ hist' = [hist EXCEPT !.replies[m] =
                     Append(@, handle_get_credential(St, m, now, pipeOpen).reply.id)]
  /\ UNCHANGED <<banned, orphans, rl, riJob, rcTok, pipe>>

SpecRR == InitRR /\ [][NextRR]_vars

----------------------------------------------------------------------------
(* Properties *)

\* the reply a GetCredential(m) message handled in the current state gets
Handled(m) == handle_get_credential(St, m, now, pipeOpen)

(* C9: round-robin.  With a queue of n viable credentials and only          *)
(* GetCredential messages, the k-th and the (k+n)-th replies for a model    *)
(* name the same id, any n consecutive replies name each of the n ids       *)
(* exactly once, and the replies follow the order of the queue.             *)
RoundRobin ==
  \A m \in queue_keys :
    LET r == hist.replies[m]
        q == hist.start[m]
        n == Len(q)
    IN /\ \A k \in 1..Len(r) : k + n <= Len(r) => r[k] = r[k + n]
       /\ \A k \in 1..Len(r) : k + n - 1 <= Len(r) =>
            \A id \in DOMAIN manager.records :
              Cardinality({j \in k..(k + n - 1) : r[j] = id}) = 1
       /\ \A k \in 1..Len(r) : k <= n => r[k] = q[k]

\* three credentials served for more than two rounds
RoundRobinWitness ==
  \E m \in queue_keys :
    /\ Len(hist.start[m]) = MaxPool
    /\ Len(hist.replies[m]) > 2 * MaxPool

(* C1: after each message every id present in any model queue is present   *)
(* in the record map and is not in the refreshing set.                     *)
QueuedIdsKnownAndNotRefreshing ==
  \A m \in queue_keys :
    \A i \in 1..Len(manager.queues[m]) :
      /\ contains(manager, manager.queues[m][i])
      /\ ~is_refreshing(manager, manager.queues[m][i])

\* one credential is being refreshed while another one is queued
QueuedIdsWitness ==
  /\ manager.refreshing # {}
  /\ jobs # {}
  /\ \E m \in queue_keys : manager.queues[m] # <<>>

\* the ids GetCredential(m) examines: the queue up to the one it returns
Met(m) ==
  LET q == manager.queues[m] IN
  {q[i] : i \in {k \in 1..Len(q) : \A j \in 1..(k - 1) : q[j] # Handled(m).reply.id}}

Stale(id) ==
  \/ manager.records[id].at = 0
  \/ now >= manager.records[id].exp - 30

\* id was taken out of the queue and handed to handle_report_invalid, which
\* marked it refreshing and enqueued a job, or, the pipeline being gone,
\* put it back
ReportedForRefresh(m, id) ==
  /\ InSeq(id, Handled(m).refresh_ids)
  /\ Handled(m).reply.id # id
  /\ IF pipeOpen
       THEN /\ is_refreshing(Handled(m).st.manager, id)
            /\ \E j \in Handled(m).st.jobs : j.id = id
            /\ \A q \in queue_keys : ~InSeq(id, Handled(m).st.manager.queues[q])
       ELSE ~is_refreshing(Handled(m).st.manager, id)

ReplyUsable(m) ==
  Handled(m).reply.id # 0 =>
    /\ contains(manager, Handled(m).reply.id)
    /\ ~Stale(Handled(m).reply.id)
    /\ Handled(m).reply.access_token = manager.records[Handled(m).reply.id].at
    /\ Handled(m).reply.access_token # 0

(* C2, as stated: GetCredential(m) never replies with a credential whose   *)
(* access token is absent or for which now >= expiry - 30, and every such  *)
(* credential met while scanning queue m is dequeued and reported for      *)
(* refresh.                                                                *)
StaleNeverReturnedAllReported ==
  \A m \in queue_keys :
    /\ ReplyUsable(m)
    /\ \A id \in Met(m) : Stale(id) => ReportedForRefresh(m, id)

(* C2, amended: GetCredential(m) never replies with such a credential, and *)
(* every such credential met while scanning queue m that is not skipped    *)
(* for an active cooldown on m is dequeued and reported for refresh; one   *)
(* with an active cooldown on m stays queued and is not reported.          *)
StaleNeverReturnedReportedUnlessCooling ==
  \A m \in queue_keys :
    /\ ReplyUsable(m)
    /\ \A id \in Met(m) :
         Stale(id) =>
           IF CoolingDown(manager, id, m, now)
             THEN ~InSeq(id, Handled(m).refresh_ids)
             ELSE ReportedForRefresh(m, id)

\* the clock has advanced; one stale credential is reported and another
\* one, cooling down on m, is passed over
StaleReportedWitness ==
  \E m \in queue_keys :
    /\ now > 0
    /\ pipeOpen
    /\ Handled(m).refresh_ids # <<>>
    /\ \E id \in Met(m) : Stale(id) /\ CoolingDown(manager, id, m, now)

(* C3, as stated: two successive ReportInvalid(id) with no                  *)
(* RefreshComplete(id) handled between them cause at most one refresh job   *)
(* for id to be submitted to the pipeline, whatever other messages are      *)
(* handled in between.                                                      *)
SuccessiveInvalidOneJob == \A id \in CredIds : riJob[id] <= 1

(* C5, as stated: once ReportBaned(id) was handled, no later GetCredential  *)
(* for any model returns id.                                                *)
BannedNeverReturned ==
  \A m \in queue_keys : Handled(m).reply.id \notin banned

(* C6, as stated: after ReportBaned(id) the store row of id has status =    *)
(* false, list_active does not contain id, and an actor started from the    *)
(* store has id in no queue and in no record, whatever store writes are     *)
(* issued concurrently or afterwards.                                       *)
BanDurable ==
  \A id \in banned :
    /\ rows[id].status = FALSE
    /\ ~InSeq(id, list_active(rows))
    /\ ~contains(pre_start(rows), id)
    /\ \A m \in queue_keys : ~InSeq(id, pre_start(rows).queues[m])

(* C7, as stated: the RefreshComplete of a refresh that was in flight when  *)
(* ReportBaned(id) was handled is ignored: it changes neither the manager   *)
(* nor the store, whether its result is Ok or Err.                          *)
OrphanCompletionIgnored ==
  \A x \in inbox :
    (x.kind = "rc" /\ x.n \in orphans) =>
      refresh_complete(manager, rows, x.id, x.res, x.cred)
        = [manager |-> manager, rows |-> rows]

RateLimitedNeverReturned ==
  (rl.id # 0 /\ now < rl.until) => Handled(rl.model).reply.id # rl.id

(* C4, amended: if ReportRateLimit(id, m, d) is handled at time t for a     *)
(* known id, no GetCredential(m) handled at a time t' < t + d returns id,   *)
(* provided that in between no other ReportRateLimit for id and m is        *)
(* handled and id is not deleted (by ReportBaned or by a RefreshComplete    *)
(* carrying an OAuth server error).                                         *)
RateLimitedNotReturnedWhileIntact ==
  (rl.id # 0 /\ now < rl.until /\ rl.intact) =>
    Handled(rl.model).reply.id # rl.id

\* the reported credential is queued for the model and passed over in
\* favour of another one
RateLimitedWitness ==
  /\ rl.id # 0
  /\ now < rl.until
  /\ rl.intact
  /\ InSeq(rl.id, manager.queues[rl.model])
  /\ Handled(rl.model).reply.id \notin {0, rl.id}

\* id is the only credential, usable, queued for every model and cooling
\* down on none
SingleViable(id) ==
  /\ DOMAIN manager.records = {id}
  /\ Usable(manager.records[id], now)
  /\ \A q \in queue_keys :
       InSeq(id, manager.queues[q]) /\ ~CoolingDown(manager, id, q, now)

(* C10: ReportRateLimit(id, m, d) changes only the cooldown entry of        *)
(* (id, m) and queue m: records, refreshing set, the queues of the other    *)
(* models and the other cooldown entries are unchanged.  With a single      *)
(* viable credential A, a GetCredential(m) right after                      *)
(* ReportRateLimit(A, m, d) returns nothing and a GetCredential(m') for     *)
(* another model returns A.                                                 *)
RateLimitIsolation ==
  \A id \in KnownIds, m \in queue_keys, d \in Durations :
    LET after == handle_report_rate_limit(manager, id, d, m, now) IN
    /\ after.records = manager.records
    /\ after.refreshing = manager.refreshing
    /\ \A q \in queue_keys \ {m} : after.queues[q] = manager.queues[q]
    /\ DOMAIN after.cooldowns \subseteq DOMAIN manager.cooldowns \cup {<<id, m>>}
    /\ \A k \in DOMAIN manager.cooldowns \ {<<id, m>>} :
         k \in DOMAIN after.cooldowns /\ after.cooldowns[k] = manager.cooldowns[k]
    /\ SingleViable(id) =>
         /\ get_assigned(after, m, now).assigned = NoAssigned
         /\ \A q \in queue_keys \ {m} :
              get_assigned(after, q, now).assigned.id = id

\* the single credential was reported for one model: nothing for that
\* model, the credential for the other one
RateLimitIsolationWitness ==
  \E id \in KnownIds, m \in queue_keys :
    /\ DOMAIN manager.records = {id}
    /\ CoolingDown(manager, id, m, now)
    /\ Handled(m).reply = NoAssigned
    /\ \A q \in queue_keys \ {m} : Handled(q).reply.id = id

----------------------------------------------------------------------------
(* SpecE4: a pool holding one credential whose expiry is in the past, and  *)
(* GetCredential messages only; the refresh pipeline answers its jobs and  *)
(* the actor handles every message in its mailbox.                         *)
(*   hist   the pairs <<model, access token>> the replies so far carried   *)

Tokens == {TokOf(n) : n \in 1..MaxEvents}

InitE4 ==
  /\ \E t \in {TickStep, 2 * TickStep}, at1 \in {0, 1} :
       /\ now = t
       /\ rows = <<[cred |-> [pid |-> 1, at |-> at1, exp |-> 0], status |-> TRUE]>>
  /\ manager = pre_start(rows)
  /\ jobs = {}
  /\ tasks = {}
  /\ inbox = {}
  /\ seq = 0
  /\ spent = 0
  /\ pipeOpen = TRUE
  /\ pipe = <<>>
  /\ banned = {}
  /\ orphans = {}
  /\ rl = NoReport
  /\ riJob = [i \in CredIds |-> 0]
  /\ rcTok = [i \in CredIds |-> 0]
  /\ hist = {}

FrozenHistory == UNCHANGED <<banned, orphans, rl, riJob, rcTok, pipe>>

GetStep(m) ==
  /\ GetCredential(m)
  /\ hist' = IF Handled(m).reply.id = 0 THEN hist
             ELSE hist \cup {<<m, Handled(m).reply.access_token>>}
  /\ FrozenHistory

JobStep ==
  /\ \E j \in jobs, res \in Outcomes : JobFinish(j, res)
  /\ UNCHANGED hist
  /\ FrozenHistory

CompleteStep ==
  /\ \E x \in inbox : RefreshComplete(x)
  /\ UNCHANGED hist
  /\ FrozenHistory

NextE4 ==
  \/ \E m \in queue_keys : GetStep(m)
  \/ JobStep
  \/ CompleteStep
  \/ PipelineStop /\ UNCHANGED hist /\ FrozenHistory
  \/ Tick /\ UNCHANGED hist /\ FrozenHistory

\* the pipeline answers every job it holds, the actor handles every message
\* cast to it, and a caller that keeps asking is answered
FairE4 ==
  /\ WF_vars(JobStep)
  /\ WF_vars(CompleteStep)
  /\ \A m \in queue_keys : WF_vars(GetStep(m))

SpecE4 == InitE4 /\ [][NextE4]_vars /\ FairE4

Expiries == {k * TickStep + TokenLife : k \in 0..(MaxEvents + 2)}

\* a successful refresh outcome with access token tok and expiry e is
\* waiting in the mailbox for a refreshing id
RefreshSucceeded(tok, e) ==
  \E x \in inbox :
    /\ x.kind = "rc"
    /\ x.res = "ok"
    /\ x.cred.at = tok
    /\ x.cred.exp = e
    /\ is_refreshing(manager, x.id)

\* the only credential is queued for m with its expiry in the past
OnlyExpired(id, m) ==
  /\ DOMAIN manager.records = {id}
  /\ InSeq(id, manager.queues[m])
  /\ manager.records[id].exp < now
  /\ pipeOpen

(* C11: with a pool holding only credential A whose expiry is in the past, *)
(* GetCredential(m) replies None and in the same step marks A refreshing   *)
(* and submits one refresh job; if that refresh succeeds, a later          *)
(* GetCredential(m), handled before the new token is within SKEW of its    *)
(* expiry, returns A carrying the new access token, and A is eventually    *)
(* returned so unless the clock gets there first.                          *)
ExpiredRefreshedThenServed ==
  /\ [](\A id \in KnownIds, m \in queue_keys :
         OnlyExpired(id, m) =>
           /\ Handled(m).reply = NoAssigned
           /\ is_refreshing(Handled(m).st.manager, id)
           /\ Cardinality(Handled(m).st.jobs \ jobs) = 1
           /\ \A j \in Handled(m).st.jobs \ jobs :
                j.id = id /\ j.cred = manager.records[id])
  /\ \A m \in queue_keys, tok \in Tokens, e \in Expiries :
       RefreshSucceeded(tok, e) ~> (<<m, tok>> \in hist \/ now >= e - SKEW)

\* the credential was returned for both models with a refreshed token
ExpiredRefreshedWitness ==
  \E tok \in Tokens : \A m \in queue_keys : <<m, tok>> \in hist

\* an ActivateCredential for id is cast and not yet handled
Activating(id) == \E x \in inbox : x.kind = "act" /\ x.id = id

(* C12, as stated, an id whose ActivateCredential is still in the mailbox   *)
(* set aside: after every message the ids with status = true in the store  *)
(* are the ids the manager holds records for, and a row has status = false  *)
(* if and only if the manager has deleted its id.                           *)
StoreMatchesManager ==
  /\ {id \in KnownIds : rows[id].status /\ ~Activating(id)}
       = {id \in DOMAIN manager.records : ~Activating(id)}
  /\ \A id \in KnownIds :
       ~Activating(id) => (rows[id].status = FALSE <=> ~contains(manager, id))

----------------------------------------------------------------------------
(* SpecGone: the program, remembering in hist the ids that a               *)
(* RefreshComplete carrying an OAuth server error removed and that no      *)
(* ActivateCredential brought back since.                                  *)

InitGone == InitProgram /\ NothingObserved /\ hist = {}

NextGone ==
  /\ \/ \E m \in queue_keys : GetCredential(m) /\ UNCHANGED hist
     \/ \E id \in KnownIds, m \in queue_keys, d \in Durations :
          ReportRateLimit(id, m, d) /\ UNCHANGED hist
     \/ \E id \in KnownIds : ReportInvalid(id) /\ UNCHANGED hist
     \/ \E id \in KnownIds : ReportBaned(id) /\ UNCHANGED hist
     \/ \E pids \in (SUBSET Projects) \ {{}} :
          SubmitCredentials(pids) /\ UNCHANGED hist
     \/ \E j \in jobs, res \in Outcomes : JobFinish(j, res) /\ UNCHANGED hist
     \/ \E t \in tasks, res \in Outcomes : TaskFinish(t, res) /\ UNCHANGED hist
     \/ \E x \in inbox :
          /\ RefreshComplete(x)
          /\ hist' = IF is_refreshing(manager, x.id) /\ x.res = "oauth"
                       THEN hist \cup {x.id} ELSE hist
     \/ \E x \in inbox : ActivateCredential(x) /\ hist' = hist \ {x.id}
     \/ PipelineStop /\ UNCHANGED hist
     \/ Tick /\ UNCHANGED hist
  /\ FrozenHistory

SpecGone == InitGone /\ [][NextGone]_vars

\* a refresh outcome of kind res is waiting in the mailbox for a refreshing id
Pending(x, res) ==
  x.kind = "rc" /\ x.res = res /\ is_refreshing(manager, x.id)

TransientErrorKeeps ==
  \A x \in inbox :
    Pending(x, "transient") =>
      LET r == refresh_complete(manager, rows, x.id, x.res, x.cred) IN
      /\ r.manager.records = manager.records
      /\ contains(r.manager, x.id)
      /\ ~is_refreshing(r.manager, x.id)
      /\ r.manager.refreshing = manager.refreshing \ {x.id}
      /\ \A m \in queue_keys : InSeq(x.id, r.manager.queues[m])
      /\ r.manager.cooldowns = manager.cooldowns
      /\ r.rows = rows

\* a failed refresh of a cooling credential is waiting to be handled
TransientErrorWitness ==
  \E x \in inbox :
    /\ Pending(x, "transient")
    /\ \E m \in queue_keys : CoolingDown(manager, x.id, m, now)

(***************************************************************************)
(* The refresh pipeline of GoogleOauthService::new: jobs arrive on a       *)
(* bounded channel, buffer_unordered(refresh_concurrency) takes them, each *)
(* one waits for the limiter and then executes, and the worker loop sends  *)
(* every outcome to the actor.  pipe holds the pipeline's state, hist the  *)
(* number of permits the limiter got back.                                 *)
(***************************************************************************)
Max(a, b) == IF a >= b THEN a ELSE b

Min(a, b) == IF a <= b THEN a ELSE b

\* a limit one larger than the configured one
refresh_concurrency_one_more(configured) == Max(configured, 1) + 1

\* CONFIG.refresh_concurrency.max(1)
refresh_concurrency(configured) == Max(configured, 1)

\* a limiter that lets every caller through and takes no permit
until_ready_unlimited(permits) == [ready |-> TRUE, permits |-> permits]

\* lim.until_ready(): completes once a permit is there, and takes it
until_ready(permits) == [ready |-> permits > 0, permits |-> permits - 1]

Flying(phase) == {f \in pipe.flying : f.phase = phase}

Taken == {f.n : f \in pipe.flying} \cup pipe.out

Started == {f.n : f \in Flying("execute")} \cup pipe.out

InitPipe ==
  /\ now = 0
  /\ rows = <<>>
  /\ manager = EmptyManager
  /\ jobs = {}
  /\ tasks = {}
  /\ inbox = {}
  /\ seq = 0
  /\ spent = 0
  /\ pipeOpen = TRUE
  /\ NothingObserved
  /\ hist = 0
  /\ \E configured \in 0..MaxConc :
       pipe = [configured |-> configured, chan |-> <<>>, sent |-> 0,
               flying |-> {}, permits |-> BURST, refills |-> 0, out |-> {},
               senders |-> TRUE, actor |-> TRUE, stopped |-> FALSE]

FrozenProgram ==
  UNCHANGED <<rows, manager, jobs, tasks, inbox, seq, spent, pipeOpen,
              banned, orphans, rl, riJob, rcTok>>

\* submit: job_tx.send(job).await, which waits while the channel is full
Send ==
  /\ pipe.senders /\ ~pipe.stopped
  /\ pipe.sent < MaxArrivals
  /\ Len(pipe.chan) < ChanCap
  /\ pipe' = [pipe EXCEPT !.chan = Append(@, pipe.sent + 1), !.sent = @ + 1]
  /\ UNCHANGED <<now, hist>>

\* buffer_unordered polls the stream while it holds fewer futures than its
\* limit
Take ==
  /\ ~pipe.stopped
  /\ pipe.chan # <<>>
  /\ Cardinality(pipe.flying) < refresh_concurrency(pipe.configured)
  /\ pipe' = [pipe EXCEPT !.chan = Tail(@),
                          !.flying = @ \cup {[n |-> Head(pipe.chan),
                                              phase |-> "limiter"]}]
  /\ UNCHANGED <<now, hist>>

\* a job's future gets past lim.until_ready().await
Acquire(f) ==
  LET r == until_ready(pipe.permits) IN
  /\ ~pipe.stopped
  /\ f.phase = "limiter"
  /\ r.ready
  /\ pipe' = [pipe EXCEPT !.permits = r.permits,
                          !.flying = (@ \ {f}) \cup {[f EXCEPT !.phase = "execute"]}]
  /\ UNCHANGED <<now, hist>>

\* instruction.execute ends, the stream yields the outcome and the loop
\* sends it to the actor, or breaks when the actor is gone; the futures
\* still in flying when the worker has stopped are dropped with it
Emit(f) ==
  /\ ~pipe.stopped
  /\ f.phase = "execute"
  /\ pipe' = [pipe EXCEPT !.flying = @ \ {f},
                          !.out = @ \cup {f.n},
                          !.stopped = ~pipe.actor]
  /\ UNCHANGED <<now, hist>>

\* REFILL_SECS go by: the limiter gets one permit back, up to BURST
Refill ==
  /\ pipe.refills < MaxRefills
  /\ now' = now + REFILL_SECS
  /\ pipe' = [pipe EXCEPT !.permits = Min(@ + 1, BURST), !.refills = @ + 1]
  /\ hist' = IF pipe.permits < BURST THEN hist + 1 ELSE hist

\* every sender of the job channel is dropped
SendersDropped ==
  /\ pipe.senders
  /\ pipe' = [pipe EXCEPT !.senders = FALSE]
  /\ UNCHANGED <<now, hist>>

\* the actor stops: send_refresh_complete fails from now on
ActorGone ==
  /\ pipe.actor
  /\ pipe' = [pipe EXCEPT !.actor = FALSE]
  /\ UNCHANGED <<now, hist>>

\* the stream ends once the channel is closed and drained and no future is
\* left
Drained ==
  /\ ~pipe.stopped
  /\ ~pipe.senders /\ pipe.chan = <<>> /\ pipe.flying = {}
  /\ pipe' = [pipe EXCEPT !.stopped = TRUE]
  /\ UNCHANGED <<now, hist>>

NextPipe ==
  /\ \/ Send
     \/ Take
     \/ \E f \in pipe.flying : Acquire(f)
     \/ \E f \in pipe.flying : Emit(f)
     \/ Refill
     \/ SendersDropped
     \/ ActorGone
     \/ Drained
  /\ FrozenProgram

SpecPipe == InitPipe /\ [][NextPipe]_vars

(* C15: the pipeline never holds more than max(refresh_concurrency, 1)    *)
(* jobs between taking them from the channel and emitting their outcome.  *)
InFlightBounded ==
  Cardinality(pipe.flying) <= Max(pipe.configured, 1)

InFlightWitness ==
  /\ pipe.configured = MaxConc
  /\ Cardinality(pipe.flying) = MaxConc
  /\ Len(pipe.chan) = ChanCap
  /\ pipe.out # {}

(* C16: a job starts executing only by taking one permit from the limiter *)
(* of BURST permits that gets one back every REFILL_SECS: the jobs        *)
(* started and the permits left always add up to BURST plus the permits   *)
(* that came back, so the jobs started in any interval are at most the    *)
(* permits available in it; and a job waiting for a permit stays in the   *)
(* pipeline while the worker runs.                                        *)
PermitBeforeExecute ==
  /\ [](/\ pipe.permits \in 0..BURST
        /\ Cardinality(Started) + pipe.permits = BURST + hist)
  /\ [][/\ \A f \in Flying("execute")' :
             f \notin Flying("execute") =>
               /\ [f EXCEPT !.phase = "limiter"] \in pipe.flying
               /\ pipe.permits >= 1
               /\ pipe.permits' = pipe.permits - 1
        /\ \A f \in Flying("limiter") :
             ~pipe.stopped' =>
               \/ f \in pipe.flying'
               \/ [f EXCEPT !.phase = "execute"] \in pipe.flying']_vars

PermitWitness ==
  /\ \E f \in Flying("execute") : f.n > BURST
  /\ pipe.permits = 0
  /\ Flying("limiter") # {}

----------------------------------------------------------------------------
(***************************************************************************)
(* CredentialsStorage at the level of columns.  A GoogleCredential is      *)
(* [email, pid, refresh_token, access_token, expiry]; email and            *)
(* access_token are Options, expiry is a DateTime<Utc> [year, secs, nanos] *)
(* (secs: seconds into the year).  The table is the sequence of rows of    *)
(* upsert above, a row's cred being its bound columns and its status the   *)
(* integer 0 or 1.                                                         *)
(***************************************************************************)
None == [some |-> FALSE]

Some(x) == [some |-> TRUE, v |-> x]

NULL == [null |-> TRUE]

Text(x) == [null |-> FALSE, text |-> x]

\* binding an Option<String>
bind_opt(o) == IF o.some THEN Text(o.v) ELSE NULL

\* try_get::<Option<String>>
get_opt(col) == IF col.null THEN None ELSE Some(col.text)

Pow10(k) == CASE k = 0 -> 1 [] k = 3 -> 1000 [] k = 6 -> 1000000
              [] k = 9 -> 1000000000

\* the decimal digits of n, most significant first, zero padded to width
RECURSIVE digits(_, _)
digits(n, width) ==
  IF width = 0 THEN <<>> ELSE Append(digits(n \div 10, width - 1), n % 10)

RECURSIVE number(_)
number(ds) ==
  IF ds = <<>> THEN 0 ELSE 10 * number(SubSeq(ds, 1, Len(ds) - 1)) + ds[Len(ds)]

\* the number of fraction digits SecondsFormat::AutoSi prints
AutoSi(nanos) ==
  IF nanos = 0 THEN 0
  ELSE IF nanos % 1000000 = 0 THEN 3
  ELSE IF nanos % 1000 = 0 THEN 6
  ELSE 9

\* an expiry written with milliseconds only
to_rfc3339_millis(dt) ==
  [year |-> digits(dt.year, 4), time |-> dt.secs,
   frac |-> digits(dt.nanos \div Pow10(6), 3), offset |-> 0]

\* cred.expiry.to_rfc3339(): four year digits, the time, the fraction as
\* AutoSi has it, and the offset +00:00
to_rfc3339(dt) ==
  [year |-> digits(dt.year, 4), time |-> dt.secs,
   frac |-> digits(dt.nanos \div Pow10(9 - AutoSi(dt.nanos)), AutoSi(dt.nanos)),
   offset |-> 0]

\* chrono::DateTime::parse_from_rfc3339(..).with_timezone(&Utc)
parse_from_rfc3339(txt) ==
  IF Len(txt.year) # 4 \/ Len(txt.frac) > 9 THEN [ok |-> FALSE]
  ELSE [ok |-> TRUE,
        dt |-> [year |-> number(txt.year), secs |-> txt.time - txt.offset,
                nanos |-> number(txt.frac) * Pow10(9 - Len(txt.frac))]]

status_i(status) == IF status THEN 1 ELSE 0

\* the values bound to the statement's columns
bind(cred) ==
  [email |-> bind_opt(cred.email), pid |-> cred.pid,
   refresh_token |-> cred.refresh_token,
   access_token |-> bind_opt(cred.access_token),
   expiry |-> to_rfc3339(cred.expiry)]

row_to_model(tbl, id) ==
  LET col == tbl[id].cred
      expiry == parse_from_rfc3339(col.expiry) IN
  IF ~expiry.ok THEN [ok |-> FALSE]
  ELSE [ok |-> TRUE,
        row |-> [id |-> id, email |-> get_opt(col.email), pid |-> col.pid,
                 refresh_token |-> col.refresh_token,
                 access_token |-> get_opt(col.access_token),
                 expiry |-> expiry.dt, status |-> tbl[id].status # 0]]

\* SELECT ... WHERE id = ?, fetch_one
get_by_id(tbl, id) ==
  IF id \in 1..Len(tbl) THEN row_to_model(tbl, id) ELSE [ok |-> FALSE]

\* SELECT id FROM credentials WHERE project_id = ?
select_id(tbl, pid) == CHOOSE i \in 1..Len(tbl) : tbl[i].cred.pid = pid

\* CredentialsStorage::upsert
storage_upsert(tbl, cred, status) ==
  LET t == upsert(tbl, bind(cred), status_i(status)) IN
  [rows |-> t, id |-> select_id(t, cred.pid)]

\* the batch applied item by item with every statement committed at once:
\* an error at item fail leaves the earlier items in the table
RECURSIVE upsert_many_no_tx(_, _, _)
upsert_many_no_tx(tbl, items, fail) ==
  IF items = <<>> THEN [ok |-> TRUE, rows |-> tbl, ids |-> <<>>]
  ELSE IF fail = 1 THEN [ok |-> FALSE, rows |-> tbl]
  ELSE LET r == storage_upsert(tbl, items[1].cred, items[1].status)
           rest == upsert_many_no_tx(r.rows, Tail(items), fail - 1) IN
       IF rest.ok THEN [rest EXCEPT !.ids = <<r.id>> \o @] ELSE rest

\* CredentialsStorage::upsert_many: the statements run in one transaction;
\* item number fail (0: none) returns an error, the function returns before
\* tx.commit() and the dropped transaction rolls back; fail beyond the last
\* item is an error of tx.commit() itself
upsert_many(tbl, items, fail) ==
  LET r == upsert_many_no_tx(tbl, items, fail) IN
  IF r.ok /\ fail <= Len(items) THEN r ELSE [ok |-> FALSE, rows |-> tbl]

\* an UPDATE on a table without UNIQUE(project_id)
storage_update_by_id_no_unique(tbl, id, cred, status) ==
  IF id \in 1..Len(tbl)
    THEN [tbl EXCEPT ![id] = [cred |-> bind(cred), status |-> status_i(status)]]
    ELSE tbl

\* CredentialsStorage::update_by_id
storage_update_by_id(tbl, id, cred, status) ==
  update_by_id(tbl, id, bind(cred), status_i(status))

\* CredentialsStorage::set_status
storage_set_status(tbl, id, status) == set_status(tbl, id, status_i(status))

Instants ==
  {[year |-> 2026, secs |-> 0, nanos |-> 0],
   [year |-> 2026, secs |-> 59, nanos |-> 120000000],
   [year |-> 9999, secs |-> 59, nanos |-> 1]}

Shapes ==
  {[email |-> None, access_token |-> None,
    expiry |-> [year |-> 2026, secs |-> 0, nanos |-> 0]],
   [email |-> Some("a@x"), access_token |-> Some("t1"),
    expiry |-> [year |-> 2026, secs |-> 59, nanos |-> 120000000]],
   [email |-> None, access_token |-> Some("t2"),
    expiry |-> [year |-> 9999, secs |-> 59, nanos |-> 1]]}

\* credentials with a non-empty refresh_token
Creds ==
  {[email |-> sh.email, pid |-> p, refresh_token |-> "r",
    access_token |-> sh.access_token, expiry |-> sh.expiry] :
     sh \in Shapes, p \in Projects}

Items == {[cred |-> c, status |-> b] : c \in Creds, b \in BOOLEAN}

MaxBatch == 2

\* batches of at most MaxBatch items, every item with an access token
BatchItems == {i \in Items : i.cred.access_token = Some("t1")}

Batches ==
  {<<>>} \cup {<<i>> : i \in BatchItems} \cup {<<i, j>> : i, j \in BatchItems}

RowIds == 1..(NProj + 1)

InitStore ==
  /\ now = 0
  /\ rows = <<>>
  /\ manager = EmptyManager
  /\ jobs = {}
  /\ tasks = {}
  /\ inbox = {}
  /\ seq = 0
  /\ spent = 0
  /\ pipeOpen = TRUE
  /\ pipe = <<>>
  /\ NothingObserved
  /\ hist = [op |-> "new"]

FrozenActor ==
  UNCHANGED <<now, manager, jobs, tasks, inbox, seq, spent, pipeOpen, pipe,
              banned, orphans, rl, riJob, rcTok>>

StoreUpsert(c, b) ==
  LET r == storage_upsert(rows, c, b) IN
  /\ rows' = r.rows
  /\ hist' = [op |-> "upsert", cred |-> c, status |-> b, id |-> r.id]

StoreUpsertMany(items, fail) ==
  LET r == upsert_many(rows, items, fail) IN
  /\ rows' = r.rows
  /\ hist' = [op |-> "upsert_many", items |-> items, ok |-> r.ok,
              ids |-> IF r.ok THEN r.ids ELSE <<>>]

StoreUpdateById(id, c, b) ==
  /\ rows' = storage_update_by_id(rows, id, c, b)
  /\ hist' = [op |-> "update_by_id", id |-> id, cred |-> c, status |-> b]

StoreSetStatus(id, b) ==
  /\ rows' = storage_set_status(rows, id, b)
  /\ hist' = [op |-> "set_status", id |-> id, status |-> b]

StoreGetById(id) ==
  /\ rows' = rows
  /\ hist' = [op |-> "get_by_id", id |-> id, res |-> get_by_id(rows, id)]

NextStore ==
  /\ \/ \E c \in Creds, b \in BOOLEAN : StoreUpsert(c, b)
     \/ \E items \in Batches, fail \in 0..(MaxBatch + 1) :
          fail <= Len(items) + 1 /\ StoreUpsertMany(items, fail)
     \/ \E id \in RowIds, c \in Creds, b \in BOOLEAN : StoreUpdateById(id, c, b)
     \/ \E id \in RowIds, b \in BOOLEAN : StoreSetStatus(id, b)
     \/ \E id \in RowIds : StoreGetById(id)
  /\ FrozenActor

SpecStore == InitStore /\ [][NextStore]_vars

(* C17: on every table the store can hold, upsert(c, true) of a credential *)
(* with a non-empty refresh_token followed by get_by_id of the returned id *)
(* yields a row with c's email, project_id, refresh_token, access_token    *)
(* and expiry, and status true.                                            *)
StoreRoundTrip ==
  \A c \in Creds :
    LET r == storage_upsert(rows, c, TRUE)
        g == get_by_id(r.rows, r.id) IN
    /\ g.ok
    /\ g.row.email = c.email
    /\ g.row.pid = c.pid
    /\ g.row.refresh_token = c.refresh_token
    /\ g.row.access_token = c.access_token
    /\ g.row.expiry = c.expiry
    /\ g.row.status = TRUE

StoreRoundTripWitness ==
  /\ hist.op = "get_by_id" /\ hist.res.ok
  /\ hist.res.row.status
  /\ hist.res.row.email = None
  /\ hist.res.row.expiry.nanos = 1
  /\ \E c \in Creds : rows[hist.id] = [cred |-> bind(c), status |-> 1]
  /\ Len(rows) = NProj

Pids(tbl) == {tbl[i].cred.pid : i \in 1..Len(tbl)}

(* C18: no two rows share a project_id; an upsert whose project_id is      *)
(* already there returns that row's id, adds no row and overwrites every   *)
(* column of the row but the id, status included, leaving the other rows   *)
(* alone; an upsert of a new project_id adds one row with a new id; and no *)
(* operation removes a row or gives it another id.                         *)
ProjectIdUnique ==
  /\ [](\A i, j \in 1..Len(rows) : rows[i].cred.pid = rows[j].cred.pid => i = j)
  /\ [][/\ Len(rows') >= Len(rows)
        /\ hist'.op = "upsert" =>
             /\ hist'.cred.pid \in Pids(rows) =>
                  /\ hist'.id = select_id(rows, hist'.cred.pid)
                  /\ Len(rows') = Len(rows)
             /\ hist'.cred.pid \notin Pids(rows) =>
                  /\ hist'.id = Len(rows) + 1
                  /\ Len(rows') = Len(rows) + 1
             /\ rows'[hist'.id] =
                  [cred |-> bind(hist'.cred), status |-> status_i(hist'.status)]
             /\ \A i \in 1..Len(rows) : i # hist'.id => rows'[i] = rows[i]
        /\ hist'.op \in {"update_by_id", "set_status"} =>
             /\ Len(rows') = Len(rows)
             /\ \A i \in 1..Len(rows) : i # hist'.id => rows'[i] = rows[i]]_vars

ProjectIdUniqueWitness ==
  /\ hist.op = "upsert"
  /\ Len(rows) = NProj
  /\ hist.id = 1
  /\ rows[1].status = 0
  /\ \E i \in 1..Len(rows) : rows[i].status = 1

(* C19: upsert_many returns, when every item succeeds, ids whose i-th      *)
(* element is the id of the row holding the i-th item's project_id; when   *)
(* an item fails it returns an error and the table is what it was before   *)
(* the call.                                                               *)
UpsertManyAtomic ==
  [][hist'.op = "upsert_many" =>
       IF hist'.ok
         THEN /\ Len(hist'.ids) = Len(hist'.items)
              /\ \A i \in 1..Len(hist'.items) :
                   /\ hist'.ids[i] \in 1..Len(rows')
                   /\ rows'[hist'.ids[i]].cred.pid = hist'.items[i].cred.pid
         ELSE rows' = rows]_vars

UpsertManyWitness ==
  /\ hist.op = "upsert_many" /\ ~hist.ok
  /\ Len(hist.items) = 2
  /\ hist.items[1].cred.pid \notin Pids(rows)

----------------------------------------------------------------------------
(***************************************************************************)
(* Inbound authorisation (middleware/auth.rs).  Strings are sequences of   *)
(* characters; a header value is [ascii, s], to_str() giving s only when   *)
(* the value is visible ASCII; a query string is the sequence of its       *)
(* decoded (key, value) pairs.                                             *)
(***************************************************************************)
nexus_key == <<"k", "1">>

OtherKey == <<"k", "2">>

Absent == [present |-> FALSE]

Header(ascii, str) == [present |-> TRUE, ascii |-> ascii, s |-> str]

\* headers.get(name).and_then(|v| v.to_str().ok())
to_str(h) == IF h.present /\ h.ascii THEN Some(h.s) ELSE None

RECURSIVE trim_start(_)
trim_start(str) ==
  IF str # <<>> /\ Head(str) = " " THEN trim_start(Tail(str)) ELSE str

RECURSIVE trim_end(_)
trim_end(str) ==
  IF str # <<>> /\ str[Len(str)] = " "
    THEN trim_end(SubSeq(str, 1, Len(str) - 1)) ELSE str

trim(str) == trim_end(trim_start(str))

strip_prefix(str, prefix) ==
  IF Len(str) >= Len(prefix) /\ SubSeq(str, 1, Len(prefix)) = prefix
    THEN Some(SubSeq(str, Len(prefix) + 1, Len(str)))
    ELSE None

or_else(o, p) == IF o.some THEN o ELSE p

\* ensure_authorized: TRUE for Ok(()), FALSE for the 401 response
ensure_authorized(headers, query) ==
  LET hv == to_str(headers.x_goog_api_key)
      auth == to_str(headers.authorization)
      token == IF auth.some
                 THEN or_else(strip_prefix(trim(auth.v), <<"B", "e", "a", "r", "e", "r", " ">>),
                              strip_prefix(trim(auth.v), <<"b", "e", "a", "r", "e", "r", " ">>))
                 ELSE None IN
  \/ hv.some /\ hv.v = nexus_key
  \/ token.some /\ token.v = nexus_key
  \/ query.some /\ \E i \in 1..Len(query.v) :
                     query.v[i].k = <<"k", "e", "y">> /\ query.v[i].v = nexus_key

\* RequireKeyAuth::from_request_parts, and the handler behind the extractor
from_request_parts(req) ==
  IF ensure_authorized(req.headers, req.query)
    THEN [status |-> 200, acquire |-> TRUE]
    ELSE [status |-> 401, acquire |-> FALSE]

KeyHeaders ==
  {Absent, Header(TRUE, nexus_key), Header(TRUE, OtherKey),
   Header(FALSE, nexus_key)}

Schemes ==
  {<<"B", "e", "a", "r", "e", "r">>, <<"b", "e", "a", "r", "e", "r">>,
   <<"B", "E", "A", "R", "E", "R">>, <<"B", "a", "s", "i", "c">>}

AuthHeaders ==
  {Absent, Header(TRUE, nexus_key),
   Header(TRUE, <<" ">> \o <<"B", "e", "a", "r", "e", "r", " ">> \o nexus_key \o <<" ">>)}
    \cup {Header(TRUE, sc \o <<" ">> \o k) : sc \in Schemes, k \in {nexus_key, OtherKey}}

Pair(k, v) == [k |-> k, v |-> v]

Queries ==
  {None, Some(<<>>),
   Some(<<Pair(<<"k", "e", "y">>, nexus_key)>>),
   Some(<<Pair(<<"k", "e", "y">>, OtherKey)>>),
   Some(<<Pair(<<"a", "l", "t">>, nexus_key)>>),
   Some(<<Pair(<<"k", "e", "y">>, OtherKey), Pair(<<"k", "e", "y">>, nexus_key)>>)}

Requests ==
  {[headers |-> [x_goog_api_key |-> x, authorization |-> a], query |-> q] :
     x \in KeyHeaders, a \in AuthHeaders, q \in Queries}

InitAuth ==
  /\ now = 0
  /\ rows = <<>>
  /\ manager = EmptyManager
  /\ jobs = {}
  /\ tasks = {}
  /\ inbox = {}
  /\ seq = 0
  /\ spent = 0
  /\ pipeOpen = TRUE
  /\ pipe = <<>>
  /\ NothingObserved
  /\ hist = [op |-> "new"]

Request(req) ==
  /\ hist' = [op |-> "request", req |-> req, res |-> from_request_parts(req)]
  /\ UNCHANGED rows
  /\ FrozenActor

NextAuth == \E req \in Requests : Request(req)

SpecAuth == InitAuth /\ [][NextAuth]_vars

lower(ch) ==
  CASE ch = "B" -> "b" [] ch = "E" -> "e" [] ch = "A" -> "a" [] ch = "R" -> "r"
    [] OTHER -> ch

\* the Authorization value split at its first space into scheme and token
RECURSIVE scheme_end(_, _)
scheme_end(str, i) ==
  IF i > Len(str) \/ str[i] = " " THEN i ELSE scheme_end(str, i + 1)

BearerToken(h) ==
  LET v == to_str(h)
      str == IF v.some THEN trim(v.v) ELSE <<>>
      e == scheme_end(str, 1) IN
  IF v.some /\ e <= Len(str)
       /\ [i \in 1..(e - 1) |-> lower(str[i])] = <<"b", "e", "a", "r", "e", "r">>
    THEN Some(SubSeq(str, e + 1, Len(str)))
    ELSE None

Presented(req) ==
  \/ to_str(req.headers.x_goog_api_key) = Some(nexus_key)
  \/ BearerToken(req.headers.authorization) = Some(nexus_key)
  \/ req.query.some /\ \E i \in 1..Len(req.query.v) :
       req.query.v[i] = Pair(<<"k", "e", "y">>, nexus_key)

(* C20: a request is let through exactly when its x-goog-api-key header,   *)
(* or the token of its Authorization header with scheme Bearer in any      *)
(* letter case, or its query parameter key is the configured key; every    *)
(* other request gets 401 and no credential is acquired for it.            *)
AuthorisedIffKeyPresented ==
  hist.op = "request" =>
    /\ hist.res.status # 401 <=> Presented(hist.req)
    /\ hist.res.status = 401 => ~hist.res.acquire

----------------------------------------------------------------------------
\* a RefreshComplete for id is in the mailbox or will be cast by a
\* completion task waiting for a job's answer
CompletionPending(st, box, id) ==
  \/ \E j \in st.jobs : j.id = id
  \/ \E x \in box : x.kind = "rc" /\ x.id = id

Restorable(id) == contains(manager, id) /\ ~is_refreshing(manager, id) /\ ~pipeOpen

(* C24: ReportInvalid(id) for a known id that is not refreshing, when the  *)
(* refresh job cannot be sent, leaves id outside the refreshing set, in    *)
(* every model queue and with its record unchanged, and leaves no          *)
(* RefreshComplete for id pending.                                         *)
EnqueueFailureRestores ==
  \A id \in KnownIds :
    Restorable(id) =>
      LET st1 == handle_report_invalid(St, id, pipeOpen) IN
      /\ ~is_refreshing(st1.manager, id)
      /\ \A m \in queue_keys : InSeq(id, st1.manager.queues[m])
      /\ st1.manager.records = manager.records
      /\ ~CompletionPending(st1, inbox, id)

\* the handler's own effect when the send fails: id is restored, with its
\* cooldowns, and no job and no completion task is added
EnqueueFailureRestoresNoNewJob ==
  \A id \in KnownIds :
    Restorable(id) =>
      LET st1 == handle_report_invalid(St, id, pipeOpen) IN
      /\ ~is_refreshing(st1.manager, id)
      /\ \A m \in queue_keys : InSeq(id, st1.manager.queues[m])
      /\ st1.manager.records = manager.records
      /\ st1.manager.cooldowns = manager.cooldowns
      /\ st1.jobs = jobs /\ st1.seq = seq

EnqueueFailureWitness ==
  \E id \in KnownIds :
    /\ Restorable(id)
    /\ \E m \in queue_keys : manager.queues[m] # <<>> /\ Head(manager.queues[m]) = id
    /\ Cardinality(DOMAIN manager.records) > 1

----------------------------------------------------------------------------
(* SpecExpired: the program, with the ids a GetCredential found expired    *)
(* (its refresh_ids) and whose RefreshComplete has not been handled since. *)
InitExpired == InitProgram /\ NothingObserved /\ hist = {}

FoundExpired(m) ==
  {id \in KnownIds : InSeq(id, Handled(m).refresh_ids)}

NextExpired ==
  /\ \/ \E m \in queue_keys :
          GetCredential(m) /\ hist' = hist \cup FoundExpired(m)
     \/ \E id \in KnownIds, m \in queue_keys, d \in Durations :
          ReportRateLimit(id, m, d) /\ UNCHANGED hist
     \/ \E id \in KnownIds : ReportInvalid(id) /\ UNCHANGED hist
     \/ \E id \in KnownIds : ReportBaned(id) /\ UNCHANGED hist
     \/ \E pids \in (SUBSET Projects) \ {{}} :
          SubmitCredentials(pids) /\ UNCHANGED hist
     \/ \E j \in jobs, res \in Outcomes : JobFinish(j, res) /\ UNCHANGED hist
     \/ \E t \in tasks, res \in Outcomes : TaskFinish(t, res) /\ UNCHANGED hist
     \/ \E x \in inbox :
          /\ RefreshComplete(x)
          /\ hist' = IF is_refreshing(manager, x.id) THEN hist \ {x.id} ELSE hist
     \/ \E x \in inbox : ActivateCredential(x) /\ UNCHANGED hist
     \/ PipelineStop /\ UNCHANGED hist
     \/ Tick /\ UNCHANGED hist
  /\ FrozenHistory

SpecExpired == InitExpired /\ [][NextExpired]_vars

(* C25: a GetCredential marks every id of its refresh_ids refreshing in    *)
(* the same step, and no GetCredential for any model returns an id that an *)
(* earlier GetCredential found expired before that id's RefreshComplete    *)
(* has been handled.                                                       *)
ExpiredNotServedUntilRefreshed ==
  \A m \in queue_keys :
    /\ pipeOpen => \A id \in FoundExpired(m) : is_refreshing(Handled(m).st.manager, id)
    /\ Handled(m).reply.id \notin hist

----------------------------------------------------------------------------
HeadOf(mgr, m) == IF mgr.queues[m] = <<>> THEN 0 ELSE Head(mgr.queues[m])

(* C26, as stated: an id with an active cooldown for model m is never the  *)
(* head of queue m.                                                        *)
CoolingNeverHead ==
  \A id \in KnownIds, m \in queue_keys :
    CoolingDown(manager, id, m, now) => HeadOf(manager, m) # id

(* C26, amended: right after ReportRateLimit(id, m, d) with d > 0 the id   *)
(* has an active cooldown and is not the head of queue m; later it may     *)
(* become the head, and then GetCredential(m) skips it: it does not return *)
(* it, leaves it in the queue and keeps its cooldown.                      *)
CoolingSkippedAtHead ==
  \A id \in KnownIds, m \in queue_keys :
    /\ \A d \in Durations :
         (d > 0 /\ contains(manager, id)) =>
           LET mgr1 == handle_report_rate_limit(manager, id, d, m, now) IN
           /\ CoolingDown(mgr1, id, m, now)
           /\ HeadOf(mgr1, m) # id
           /\ get_assigned(mgr1, m, now).assigned.id # id
    /\ CoolingDown(manager, id, m, now) =>
         /\ Handled(m).reply.id # id
         /\ CoolingDown(Handled(m).st.manager, id, m, now)
         /\ InSeq(id, manager.queues[m]) => InSeq(id, Handled(m).st.manager.queues[m])

CoolingAtHeadWitness ==
  \E id \in KnownIds, m \in queue_keys :
    /\ CoolingDown(manager, id, m, now)
    /\ HeadOf(manager, m) = id
    /\ Handled(m).reply.id \notin {0, id}

----------------------------------------------------------------------------
(* SpecCool: a pool of NProj credentials whose tokens stay valid, rate     *)
(* limit reports, the clock, and callers that keep asking for every model. *)
(* hist.last[m] is the id of the latest GetCredential(m) reply, reset for  *)
(* an id by a rate limit report on it; hist.cooled holds the (id, m) that  *)
(* were reported with a positive duration.                                 *)
LongLife == SKEW + (MaxEvents + 1) * TickStep

InitCool ==
  /\ now = 0
  /\ rows = [i \in 1..NProj |->
               [cred |-> [pid |-> i, at |-> i, exp |-> LongLife], status |-> TRUE]]
  /\ manager = pre_start(rows)
  /\ jobs = {}
  /\ tasks = {}
  /\ inbox = {}
  /\ seq = 0
  /\ spent = 0
  /\ pipeOpen = TRUE
  /\ pipe = <<>>
  /\ NothingObserved
  /\ hist = [last |-> [m \in queue_keys |-> 0], cooled |-> {}]

CoolGet(m) ==
  /\ GetCredential(m)
  /\ hist' = [hist EXCEPT !.last[m] = Handled(m).reply.id]
  /\ FrozenHistory

CoolReport(id, m, d) ==
  /\ ReportRateLimit(id, m, d)
  /\ hist' = [last |-> [k \in queue_keys |->
                          IF k = m /\ hist.last[k] = id THEN 0 ELSE hist.last[k]],
              cooled |-> IF d > 0 THEN hist.cooled \cup {<<id, m>>}
                         ELSE hist.cooled]
  /\ FrozenHistory

NextCool ==
  \/ \E m \in queue_keys : CoolGet(m)
  \/ \E id \in KnownIds, m \in queue_keys, d \in Durations : CoolReport(id, m, d)
  \/ Tick /\ UNCHANGED hist /\ FrozenHistory

\* a caller that keeps asking for model m is answered
FairCool == \A m \in queue_keys : WF_vars(CoolGet(m))

SpecCool == InitCool /\ [][NextCool]_vars /\ FairCool

\* the cooldown of (id, m) is over: the entry is there and now >= not_before,
\* and id is known, holds a valid token and is not refreshing
CooldownOver(id, m) ==
  /\ <<id, m>> \in DOMAIN manager.cooldowns
  /\ ~CoolingDown(manager, id, m, now)
  /\ contains(manager, id)
  /\ Usable(manager.records[id], now)
  /\ ~is_refreshing(manager, id)

Released(id, m) ==
  hist.last[m] = id /\ <<id, m>> \notin DOMAIN manager.cooldowns

----------------------------------------------------------------------------
(***************************************************************************)
(* SpecJob: JobInstruction::execute for one job.  hist is the job: its     *)
(* kind, its phase (refresh: refresh_inner; load: loadCodeAssist, for      *)
(* Onboard; done), the calls it made to the token endpoint and to          *)
(* loadCodeAssist, the retries taken from each retry policy, the result of *)
(* the latest call and the outcome.  The clock advances by the backoff     *)
(* delays.                                                                 *)
(***************************************************************************)
max_times == 3

min_delay == 1

max_delay == 3

CallResults == {"ok", "transport", "oauth", "json"}

\* the retry predicate: transport errors are retried, an OAuth server error
\* and an unparsable body are not
is_retryable(e) == e = "transport"

RECURSIVE Pow2(_)
Pow2(k) == IF k = 0 THEN 1 ELSE 2 * Pow2(k - 1)

\* the delay before retry number k + 1: exponential from min_delay, capped
\* at max_delay, plus up to as much jitter (in whole seconds)
Delays(k) ==
  LET base == Min(min_delay * Pow2(k), max_delay) IN {base, 2 * base - 1}

\* a retry policy that allows one retry fewer
backoff_next_one_fewer(retries) == retries + 1 < max_times

\* the backoff iterator of the policy: it yields a delay max_times times
backoff_next(retries) == retries < max_times

InitJob ==
  /\ now = 0
  /\ rows = <<>>
  /\ manager = EmptyManager
  /\ jobs = {}
  /\ tasks = {}
  /\ inbox = {}
  /\ seq = 0
  /\ spent = 0
  /\ pipeOpen = TRUE
  /\ pipe = <<>>
  /\ NothingObserved
  /\ \E kind \in {"Maintain", "Onboard"} :
       hist = [kind |-> kind, phase |-> "refresh", token_calls |-> 0,
               load_calls |-> 0, retries |-> 0, prev |-> "none",
               last |-> "none", outcome |-> "none"]

FrozenForJob ==
  UNCHANGED <<rows, manager, jobs, tasks, inbox, seq, spent, pipeOpen, pipe,
              banned, orphans, rl, riJob, rcTok>>

\* one step of call.retry(policy).when(is_retryable): the call is made; a
\* retryable error is retried after a delay while the policy yields one
Attempt(h, res, field) ==
  LET called == [h EXCEPT ![field] = @ + 1, !.prev = h.last, !.last = res] IN
  IF res = "ok" THEN [called EXCEPT !.phase = "next"]
  ELSE IF is_retryable(res) /\ backoff_next(h.retries)
    THEN [called EXCEPT !.retries = @ + 1]
    ELSE [called EXCEPT !.phase = "done", !.outcome = "Failed"]

\* refresh_inner: the token endpoint call under the job's retry policy
TokenCall(res, d) ==
  LET h == Attempt(hist, res, "token_calls") IN
  /\ hist.phase = "refresh"
  /\ d \in Delays(hist.retries)
  /\ hist' = IF h.phase # "next" THEN h
             ELSE IF hist.kind = "Maintain"
               THEN [h EXCEPT !.phase = "done", !.outcome = "Success"]
               ELSE [h EXCEPT !.phase = "load", !.retries = 0, !.last = "none"]
  /\ now' = IF h.phase = "refresh" THEN now + d ELSE now
  /\ FrozenForJob

\* Onboard: load_code_assist_with_retry under default_retry_policy
LoadCall(res, d) ==
  LET h == Attempt(hist, res, "load_calls") IN
  /\ hist.phase = "load"
  /\ d \in Delays(hist.retries)
  /\ hist' = IF h.phase # "next" THEN h
             ELSE [h EXCEPT !.phase = "done", !.outcome = "Success"]
  /\ now' = IF h.phase = "load" THEN now + d ELSE now
  /\ FrozenForJob

NextJob ==
  \/ \E res \in CallResults, d \in 1..(2 * max_delay) : TokenCall(res, d)
  \/ \E res \in CallResults, d \in 1..(2 * max_delay) : LoadCall(res, d)

SpecJob == InitJob /\ [][NextJob]_vars

(* C28: a refresh job makes at most 3 calls to the token endpoint, each    *)
(* further call following a retryable failure of the previous one, and a   *)
(* non-retryable error ends the job with a Failed outcome.                 *)
AtMostThreeTokenCalls ==
  /\ hist.token_calls <= 3
  /\ (hist.phase = "refresh" /\ hist.token_calls > 0) => is_retryable(hist.last)
  /\ (hist.phase = "refresh" /\ hist.token_calls > 1) => is_retryable(hist.prev)
  /\ (hist.last \in {"oauth", "json"}) =>
       (hist.phase = "done" /\ hist.outcome = "Failed")

\* what does hold: one call more than the policy's max_times
AtMostFourTokenCalls ==
  /\ hist.token_calls <= max_times + 1
  /\ (hist.phase = "refresh" /\ hist.token_calls > 0) => is_retryable(hist.last)
  /\ (hist.last \in {"oauth", "json"}) =>
       (hist.phase = "done" /\ hist.outcome = "Failed")

----------------------------------------------------------------------------
(***************************************************************************)
(* SpecReq: one request to /geminicli/v1beta/models/{model}:...: the       *)
(* GeminiPreprocess extractor, the acquisition of a credential, the        *)
(* attempts of try_post_cli, the classification of the upstream response   *)
(* and the reports cast to the actor.  hist is the request:                *)
(*   phase     idle, acquire, post, done                                   *)
(*   acquires  GetCredential calls made                                    *)
(*   cred      id of the assigned credential, 0 for none                   *)
(*   attempts  results of the POSTs made, in order                         *)
(*   handed    what try_post_cli returned to the handler                   *)
(*   sent      reports cast, delivered of them handled by the actor        *)
(*   response  status, code and message answered to the caller             *)
(*   held      the manager as the acquisition left it                      *)
(* An upstream result is [code], code 0 for a transport error.  The body   *)
(* of a 429 is its list of details (None: no "details" array); a detail    *)
(* has no quotaResetTimeStamp, one that does not parse, or a timestamp     *)
(* [local, offset] in seconds.                                             *)
(***************************************************************************)
MaxPostRetries == 2   \* retries of the retry policy handed to try_post_cli

BodyLimit == 30       \* largest accepted body, in MiB

DEFAULT_COOLDOWN == 60

Sizes == {1, BodyLimit, BodyLimit + 1}

Codes == {0, 200, 400, 401, 403, 404, 429, 500}

NoStamp == [kind |-> "none", local |-> 0, offset |-> 0]

BadStamp == [kind |-> "bad", local |-> 0, offset |-> 0]

Stamp(local, offset) == [kind |-> "stamp", local |-> local, offset |-> offset]

\* reset.with_timezone(&Utc)
with_timezone_utc(d) == d.local - d.offset

Stamps ==
  {Stamp(0, 0), Stamp(TickStep, 0), Stamp(TickStep + 3600, 3600),
   Stamp(3 * TickStep, 0)}

Bodies ==
  {None, Some(<<>>), Some(<<NoStamp>>), Some(<<BadStamp>>)}
    \cup {Some(<<d>>) : d \in Stamps}
    \cup {Some(<<BadStamp, d>>) : d \in Stamps}
    \cup {Some(<<Stamp(0, 0), Stamp(3 * TickStep, 0)>>),
          Some(<<Stamp(3 * TickStep, 0), Stamp(TickStep, 0)>>)}

RECURSIVE first_positive(_, _)
first_positive(details, t) ==
  IF details = <<>> THEN None
  ELSE LET d == Head(details)
           diff_secs == with_timezone_utc(d) - t
       IN IF d.kind = "stamp" /\ diff_secs > 0 THEN Some(diff_secs)
          ELSE first_positive(Tail(details), t)

\* GeminiError::quota_reset_delay: the first detail whose timestamp parses
\* and lies more than zero whole seconds ahead
quota_reset_delay(body, t) ==
  IF ~body.some THEN None ELSE first_positive(body.v, t)

\* the closure of try_post_cli that hands only a successful response back
post_once_success_only(res) ==
  IF res.code = 0 THEN "Err"
  ELSE IF res.code < 400 THEN "Ok"
  ELSE "Err"

\* the closure of try_post_cli: one POST; Ok(resp) for a success and for
\* 429, 401 and 403, Err for a transport error and every other status
post_once(res) ==
  IF res.code = 0 THEN "Err"
  ELSE IF res.code < 400 THEN "Ok"
  ELSE IF res.code \in {429, 401, 403} THEN "Ok"
  ELSE "Err"

\* the backoff of the retry policy; .retry(retry_policy) has no condition,
\* so every Err is retried while the policy yields a delay
post_backoff_next(retries) == retries < MaxPostRetries

ApiErrorResponse(status, code, message) ==
  [status |-> status, error |-> [code |-> code, message |-> message]]

\* NoAvailableCredential answered as an internal error
into_response_internal(e) ==
  ApiErrorResponse(500, "INTERNAL_ERROR", "An internal server error occurred.")

\* IntoResponse for NexusError
into_response(e) ==
  CASE e.kind \in {"DatabaseError", "RactorError"} ->
         ApiErrorResponse(500, "INTERNAL_ERROR",
                          "An internal server error occurred.")
    [] e.kind = "NoAvailableCredential" ->
         ApiErrorResponse(503, "NO_CREDENTIAL",
                          "No available credentials to process the request.")
    [] e.kind \in {"Reqwest", "UrlParse"} ->
         ApiErrorResponse(502, "BAD_GATEWAY", "Upstream service is unavailable.")
    [] e.kind = "UpstreamStatus" ->
         CASE e.code = 429 ->
                ApiErrorResponse(429, "RATE_LIMIT", "Upstream rate limit exceeded.")
           [] e.code = 401 ->
                ApiErrorResponse(401, "UNAUTHORIZED",
                                 "Upstream authentication failed.")
           [] e.code = 403 ->
                ApiErrorResponse(403, "FORBIDDEN", "Upstream permission denied.")
           [] e.code = 404 ->
                ApiErrorResponse(404, "NOT_FOUND", "Upstream resource not found.")
           [] OTHER ->
                ApiErrorResponse(e.code, "UPSTREAM_ERROR",
                                 "An upstream error occurred.")

NexusError(kind, code) == [kind |-> kind, code |-> code]

NoResponse == [status |-> 0, error |-> [code |-> "", message |-> ""]]

\* the upstream's successful answer, passed on
Forwarded(code) == [status |-> code, error |-> [code |-> "", message |-> ""]]

\* the answer to a body over the limit
PayloadTooLarge ==
  [status |-> 413,
   error |-> [code |-> 413, status |-> "PAYLOAD_TOO_LARGE",
              message |-> "request body too large"]]

\* an extractor that lets every body through
from_request_no_limit(size) == [ok |-> TRUE, response |-> NoResponse]

\* GeminiPreprocess::from_request: a body the Json extractor rejects ends
\* the request with the rejection's response, before the handler runs
from_request(size) ==
  IF size > BodyLimit THEN [ok |-> FALSE, response |-> PayloadTooLarge]
  ELSE [ok |-> TRUE, response |-> NoResponse]

RateLimitReport(id, m, cooldown) ==
  [kind |-> "ReportRateLimit", id |-> id, model |-> m, cooldown |-> cooldown]

InvalidReport(id) ==
  [kind |-> "ReportInvalid", id |-> id, model |-> "", cooldown |-> 0]

\* what the handler casts for the response try_post_cli handed to it
reports_for(code, body, id, m, t) ==
  CASE code = 429 ->
         LET delay == quota_reset_delay(body, t) IN
         <<RateLimitReport(id, m, IF delay.some THEN delay.v
                                  ELSE DEFAULT_COOLDOWN)>>
    [] code \in {401, 403} -> <<InvalidReport(id)>>
    [] OTHER -> <<>>

IdleRequest ==
  [phase |-> "idle", model |-> "", size |-> 0, acquires |-> 0, cred |-> 0,
   attempts |-> <<>>, retries |-> 0, handed |-> "none", body |-> None,
   classified |-> 0, sent |-> <<>>, delivered |-> 0, response |-> NoResponse,
   held |-> EmptyManager]

InitReq == InitProgram /\ NothingObserved /\ hist = IdleRequest

\* the request arrives and passes through the extractor
Arrive(m, size) ==
  LET x == from_request(size) IN
  /\ hist.phase = "idle"
  /\ hist' = IF x.ok
               THEN [hist EXCEPT !.phase = "acquire", !.model = m, !.size = size]
               ELSE [hist EXCEPT !.phase = "done", !.model = m, !.size = size,
                                 !.response = x.response, !.held = manager]
  /\ UNCHANGED cvars
  /\ FrozenHistory

\* the handler asks the actor for a credential; None ends the request
AcquireCredential ==
  LET r == handle_get_credential(St, hist.model, now, pipeOpen) IN
  /\ hist.phase = "acquire"
  /\ manager' = r.st.manager
  /\ jobs' = r.st.jobs
  /\ seq' = r.st.seq
  /\ hist' = IF r.reply.id = 0
               THEN [hist EXCEPT !.phase = "done", !.acquires = @ + 1,
                                 !.held = r.st.manager,
                                 !.response =
                                   into_response(NexusError("NoAvailableCredential", 0))]
               ELSE [hist EXCEPT !.phase = "post", !.acquires = @ + 1,
                                 !.cred = r.reply.id, !.held = r.st.manager]
  /\ UNCHANGED <<now, rows, tasks, inbox, spent, pipeOpen>>
  /\ FrozenHistory

\* one POST of try_post_cli and, when it is the last, the handler's
\* classification of what the helper returned
Post(res, body) ==
  LET h == [hist EXCEPT !.attempts = Append(@, res)] IN
  /\ hist.phase = "post"
  /\ body \in (IF res.code = 429 THEN Bodies ELSE {None})
  /\ hist' =
       IF post_once(res) = "Ok"
         THEN [h EXCEPT !.phase = "done", !.handed = "Ok", !.body = body,
                        !.classified = now,
                        !.sent = reports_for(res.code, body, hist.cred,
                                             hist.model, now),
                        !.response =
                          IF res.code < 400 THEN Forwarded(res.code)
                            ELSE into_response(NexusError("UpstreamStatus",
                                                          res.code))]
       ELSE IF post_backoff_next(hist.retries)
         THEN [h EXCEPT !.retries = @ + 1]
         ELSE [h EXCEPT !.phase = "done", !.handed = "Err",
                        !.response = into_response(NexusError("Reqwest", 0))]
  /\ UNCHANGED cvars
  /\ FrozenHistory

\* the actor handles the report the handler cast
Deliver ==
  LET msg == hist.sent[hist.delivered + 1]
      st1 == IF msg.kind = "ReportInvalid"
               THEN handle_report_invalid(St, msg.id, pipeOpen)
               ELSE [St EXCEPT !.manager =
                       handle_report_rate_limit(manager, msg.id, msg.cooldown,
                                                msg.model, now)]
  IN
  /\ hist.delivered < Len(hist.sent)
  /\ manager' = st1.manager
  /\ jobs' = st1.jobs
  /\ seq' = st1.seq
  /\ hist' = [hist EXCEPT !.delivered = @ + 1]
  /\ UNCHANGED <<now, rows, tasks, inbox, spent, pipeOpen>>
  /\ FrozenHistory

NextReq ==
  \/ \E m \in queue_keys, size \in Sizes : Arrive(m, size)
  \/ AcquireCredential
  \/ \E c \in Codes, body \in Bodies : Post([code |-> c], body)
  \/ Deliver
  \/ Tick /\ UNCHANGED hist /\ FrozenHistory

SpecReq == InitReq /\ [][NextReq]_vars

Finished == hist.phase = "done"

LastCode == hist.attempts[Len(hist.attempts)].code

(* C29: try_post_cli makes exactly one attempt and hands the response to   *)
(* its caller when the upstream answers 401, 403, 429 or 404; an attempt   *)
(* is followed by another only after a transport error or a 5xx.           *)
OneAttemptUnlessTransient ==
  \A i \in 1..Len(hist.attempts) :
    /\ hist.attempts[i].code \in {401, 403, 429, 404} =>
         (i = 1 /\ Len(hist.attempts) = 1 /\ hist.handed = "Ok")
    /\ i < Len(hist.attempts) =>
         (hist.attempts[i].code = 0 \/ hist.attempts[i].code >= 500)

\* what does hold: 401, 403 and 429 end the attempts and are handed over
AuthAndLimitEndAttempts ==
  \A i \in 1..Len(hist.attempts) :
    hist.attempts[i].code \in {401, 403, 429} =>
      (i = Len(hist.attempts) /\ hist.handed = "Ok")

Parsable(body) ==
  IF ~body.some THEN {}
  ELSE {body.v[i] : i \in {k \in 1..Len(body.v) : body.v[k].kind = "stamp"}}

RateLimited == Finished /\ hist.handed = "Ok" /\ LastCode = 429

(* C30: for a 429 whose body carries quotaResetTimeStamp = ts the cooldown *)
(* of the report is max(0, ts - now) in whole seconds, so a timestamp at   *)
(* or before now gives 0; the default cooldown is used only when the body  *)
(* has no parsable quotaResetTimeStamp.                                    *)
CooldownFromResetStamp ==
  RateLimited =>
    LET cooldown == hist.sent[1].cooldown IN
    IF Parsable(hist.body) = {} THEN cooldown = DEFAULT_COOLDOWN
    ELSE \E d \in Parsable(hist.body) :
           cooldown = Max(0, with_timezone_utc(d) - hist.classified)

Answered == Finished /\ hist.cred # 0

(* C21: a request that acquired a credential sends at most one report,     *)
(* chosen by the upstream status that ended its attempts: 429 gives        *)
(* ReportRateLimit for the assigned id and the request's model, 401 and    *)
(* 403 give ReportInvalid for the assigned id, and a 2xx, another 4xx or a *)
(* 5xx gives no report and leaves the credential state as it was.          *)
OneReportByStatus ==
  /\ Len(hist.sent) <= 1
  /\ Answered =>
       CASE LastCode = 429 ->
              /\ Len(hist.sent) = 1
              /\ hist.sent[1].kind = "ReportRateLimit"
              /\ hist.sent[1].id = hist.cred
              /\ hist.sent[1].model = hist.model
         [] LastCode \in {401, 403} -> hist.sent = <<InvalidReport(hist.cred)>>
         [] OTHER -> hist.sent = <<>> /\ manager = hist.held

\* a 429 that followed a retried 5xx was reported and the actor started the
\* cooldown of the assigned id for the request's model
OneReportWitness ==
  /\ Answered
  /\ Len(hist.attempts) = 2
  /\ hist.attempts[1].code = 500
  /\ LastCode = 429
  /\ hist.delivered = 1
  /\ CoolingDown(manager, hist.cred, hist.model, now)

(* C22: when GetCredential replies None the request is answered 503 with   *)
(* code NO_CREDENTIAL: no upstream call is made, no report is sent and the *)
(* acquisition is not repeated.                                            *)
NoCredentialIs503 ==
  (Finished /\ hist.acquires > 0 /\ hist.cred = 0) =>
    /\ hist.response.status = 503
    /\ hist.response.error.code = "NO_CREDENTIAL"
    /\ hist.attempts = <<>>
    /\ hist.sent = <<>>
    /\ hist.acquires = 1

\* None from a pool whose credentials are all being refreshed
NoCredentialWitness ==
  /\ Finished
  /\ hist.acquires = 1
  /\ hist.cred = 0
  /\ hist.response.status = 503
  /\ manager.refreshing # {}

----------------------------------------------------------------------------
(* Properties of the queues, the cooldown table and the refreshing set     *)

NoDuplicates(q) == \A i, j \in 1..Len(q) : q[i] = q[j] => i = j

\* the manager after the pending cast x is handled
AfterCast(x) ==
  IF x.kind = "act" THEN activate_credential(manager, x.id, x.cred)
  ELSE refresh_complete(manager, rows, x.id, x.res, x.cred).manager

(* C33: no model queue ever contains the same id twice, and handling an    *)
(* ActivateCredential or a RefreshComplete that re-adds an id leaves every *)
(* queue that already holds the id unchanged.                              *)
QueuesWithoutDuplicates ==
  /\ \A m \in queue_keys : NoDuplicates(manager.queues[m])
  /\ \A x \in inbox, m \in queue_keys :
       LET after == AfterCast(x) IN
       /\ NoDuplicates(after.queues[m])
       /\ (contains(after, x.id) /\ InSeq(x.id, manager.queues[m])) =>
            after.queues[m] = manager.queues[m]

\* an ActivateCredential is pending for an id that one queue still holds
\* and the other has lost
ReAddWitness ==
  \E x \in inbox :
    /\ x.kind = "act"
    /\ InSeq(x.id, manager.queues["pro"])
    /\ ~InSeq(x.id, manager.queues["flash"])
    /\ Len(manager.queues["pro"]) > 1

Marked(mgr) == mgr.refreshing \cup {k[1] : k \in DOMAIN mgr.cooldowns}

(* C38: every id in the refreshing set and every id with a cooldown entry  *)
(* has a record in the manager; a ReportRateLimit or ReportInvalid naming  *)
(* an unknown id creates no cooldown entry, no refreshing mark and no      *)
(* refresh job, and deleting an id removes its cooldowns and its mark.     *)
MarkedIdsKnown ==
  /\ Marked(manager) \subseteq DOMAIN manager.records
  /\ \A id \in 1..(Len(rows) + 1) :
       /\ ~contains(manager, id) =>
            /\ handle_report_invalid(St, id, pipeOpen) = St
            /\ \A m \in queue_keys, d \in Durations :
                 handle_report_rate_limit(manager, id, d, m, now) = manager
       /\ id \notin Marked(handle_report_baned(manager, rows, id).manager)
       /\ id \notin Marked(delete_credential(manager, id))

\* an id was banned while its refresh job was in flight and another id is
\* cooling down
MarkedIdsWitness ==
  \E id \in banned :
    /\ ~contains(manager, id)
    /\ InFlight(id) # {}
    /\ manager.cooldowns # <<>>

\* the cast re-adds its id: an ActivateCredential, or a RefreshComplete
\* carrying Ok or a transient error
ReAdds(x) == x.kind = "act" \/ x.res \in {"ok", "transient"}

(* C34: handling RefreshComplete(id, Ok or transient Err) or               *)
(* ActivateCredential{id} leaves every cooldown entry unchanged and leaves *)
(* id without a refreshing mark, so an id under active cooldown for model  *)
(* m is still not returned by GetCredential(m) right afterwards.           *)
ReAddKeepsCooldown ==
  \A x \in inbox :
    ReAdds(x) =>
      LET after == AfterCast(x) IN
      /\ after.cooldowns = manager.cooldowns
      /\ ~is_refreshing(after, x.id)
      /\ \A m \in queue_keys :
           CoolingDown(manager, x.id, m, now) =>
             /\ CoolingDown(after, x.id, m, now)
             /\ get_assigned(after, m, now).assigned.id # x.id

\* a refresh of an id that is cooling down succeeded and its RefreshComplete
\* is about to put the id back into the queue of that model
ReAddCoolingWitness ==
  \E x \in inbox, m \in queue_keys :
    /\ x.kind = "rc"
    /\ x.res = "ok"
    /\ is_refreshing(manager, x.id)
    /\ CoolingDown(manager, x.id, m, now)
    /\ InSeq(x.id, AfterCast(x).queues[m])

\* id went through handle_report_invalid: it is marked and has a job, or,
\* the job channel being closed, it is back in every queue
ReportedInvalid(st, id) ==
  IF pipeOpen
    THEN is_refreshing(st.manager, id) /\ \E j \in st.jobs : j.id = id
    ELSE /\ ~is_refreshing(st.manager, id)
         /\ \A m \in queue_keys : InSeq(id, st.manager.queues[m])

(* C40: a GetCredential message gets one reply, Some(assigned) or None,    *)
(* sent after every id of the call's refresh_ids was handled as an invalid *)
(* report; the credential of a Some reply is then known to the manager,    *)
(* not refreshing and queued for the requested model, and the reply         *)
(* carries its project id and access token.                                *)
ReplyAfterReports ==
  \A m \in queue_keys :
    LET r == Handled(m) IN
    /\ \A i \in 1..Len(r.refresh_ids) : ReportedInvalid(r.st, r.refresh_ids[i])
    /\ r.reply.id = 0 => r.reply = NoAssigned
    /\ r.reply.id # 0 =>
         /\ contains(r.st.manager, r.reply.id)
         /\ ~is_refreshing(r.st.manager, r.reply.id)
         /\ InSeq(r.reply.id, r.st.manager.queues[m])
         /\ ~InSeq(r.reply.id, r.refresh_ids)
         /\ r.reply.target_model = m
         /\ r.reply.project_id = r.st.manager.records[r.reply.id].pid
         /\ r.reply.access_token = r.st.manager.records[r.reply.id].at

\* a call that finds one credential in need of a refresh and replies with
\* the one behind it
ReplyAfterReportsWitness ==
  \E m \in queue_keys :
    /\ Len(Handled(m).refresh_ids) = 1
    /\ Handled(m).reply.id # 0
    /\ Handled(m).st.seq = seq + 1

----------------------------------------------------------------------------
(***************************************************************************)
(* SpecStart: the start of the actor on a store that earlier runs left     *)
(* behind.  Before the start the table receives upserts and status         *)
(* changes; Start is pre_start.  hist tells whether the actor has started. *)
(***************************************************************************)
StoredCreds ==
  [pid : 1..MaxPool, at : {0, 1}, exp : InitExpiries]

InitStart ==
  /\ now = 0
  /\ rows = <<>>
  /\ manager = EmptyManager
  /\ jobs = {}
  /\ tasks = {}
  /\ inbox = {}
  /\ seq = 0
  /\ spent = 0
  /\ pipeOpen = TRUE
  /\ pipe = <<>>
  /\ NothingObserved
  /\ hist = [started |-> FALSE]

BeforeStart == UNCHANGED <<now, manager, jobs, tasks, inbox, seq, spent, pipeOpen, hist>>

StartUpsert(cred, status) ==
  /\ ~hist.started
  /\ rows' = upsert(rows, cred, status)
  /\ BeforeStart
  /\ FrozenHistory

StartSetStatus(id, status) ==
  /\ ~hist.started
  /\ rows' = set_status(rows, id, status)
  /\ BeforeStart
  /\ FrozenHistory

Start ==
  /\ ~hist.started
  /\ manager' = pre_start(rows)
  /\ hist' = [started |-> TRUE]
  /\ UNCHANGED <<now, rows, jobs, tasks, inbox, seq, spent, pipeOpen>>
  /\ FrozenHistory

NextStart ==
  \/ \E cred \in StoredCreds, status \in BOOLEAN : StartUpsert(cred, status)
  \/ \E id \in KnownIds, status \in BOOLEAN : StartSetStatus(id, status)
  \/ Start

SpecStart == InitStart /\ [][NextStart]_vars

ActiveIds == {id \in KnownIds : rows[id].status}

(* C32: after the start every model queue holds exactly the ids of the     *)
(* rows with status = true, in ascending order and once each, the records  *)
(* are exactly the credentials of those rows, and the cooldown table and   *)
(* the refreshing set are empty.                                           *)
StartupLoadsActive ==
  hist.started =>
    /\ \A m \in queue_keys :
         LET q == manager.queues[m] IN
         /\ {q[i] : i \in 1..Len(q)} = ActiveIds
         /\ \A i, j \in 1..Len(q) : i < j => q[i] < q[j]
    /\ DOMAIN manager.records = ActiveIds
    /\ \A id \in ActiveIds : manager.records[id] = rows[id].cred
    /\ manager.cooldowns = <<>>
    /\ manager.refreshing = {}

\* a start on a table whose second row is inactive
StartupWitness ==
  /\ hist.started
  /\ Len(rows) = MaxPool
  /\ ~rows[2].status
  /\ manager.queues["pro"] = <<1, 3>>

----------------------------------------------------------------------------
\* the RefreshComplete x would be applied, not ignored as stale
Applied(x) == x.kind = "rc" /\ is_refreshing(manager, x.id)

(* C37: a RefreshComplete(id) that the actor applies carries the outcome   *)
(* of the most recently submitted refresh job of id: no job of id          *)
(* submitted later is still in the pipeline or has its own RefreshComplete *)
(* waiting.                                                                *)
AppliedIsLatest ==
  \A x \in inbox : Applied(x) => \A n \in InFlight(x.id) : n <= x.n

----------------------------------------------------------------------------
(***************************************************************************)
(* SpecSubmit: SubmitCredentials and the tasks it spawns, step by step.    *)
(* A task is [k, phase, sub, cred, n, id]: its number, its phase (spawned, *)
(* waiting for its job, refreshed, stored), the credential as submitted,   *)
(* the credential it holds now, its job and the id its upsert returned.    *)
(* hist records what happened:                                             *)
(*   count      tasks spawned so far                                       *)
(*   failed     tasks whose job could not be enqueued or did not succeed   *)
(*   unsaved    tasks whose upsert failed                                  *)
(*   refreshed  tasks whose job succeeded                                  *)
(*   upserted   [k, id, cred]: the id an upsert returned and the           *)
(*              credential the row then held                               *)
(*   cast       [k, id, cred] of the ActivateCredential messages cast      *)
(***************************************************************************)
JobResults == Outcomes \cup {"closed"}

InitSubmit ==
  /\ InitProgram
  /\ NothingObserved
  /\ hist = [count |-> 0, failed |-> {}, unsaved |-> {}, refreshed |-> {},
             upserted |-> {}, cast |-> {}]

Rank(p, pids) == Cardinality({q \in pids : q <= p})

\* handle_submit_credentials: one detached task per credential
SubmitBatch(pids) ==
  /\ spent + Cardinality(pids) <= MaxEvents
  /\ spent' = spent + Cardinality(pids)
  /\ tasks' = tasks \cup
       {[k |-> hist.count + Rank(p, pids), phase |-> "spawned",
         sub |-> [pid |-> p, at |-> 0, exp |-> 0],
         cred |-> [pid |-> p, at |-> 0, exp |-> 0], n |-> 0, id |-> 0] :
          p \in pids}
  /\ hist' = [hist EXCEPT !.count = @ + Cardinality(pids)]
  /\ UNCHANGED <<now, rows, manager, jobs, inbox, seq, pipeOpen>>
  /\ FrozenHistory

\* the task goes on whatever the job's result
after_outcome_ignores_error(res) == "refreshed"

\* match rx_done.await { Ok(Ok(u)) => u, _ => return }
after_outcome(res) == IF res = "ok" THEN "refreshed" ELSE "dropped"

\* the message that carries the credential as it was submitted
activate_message_submitted(t) ==
  [kind |-> "act", id |-> t.id, n |-> t.n, res |-> "ok", cred |-> t.sub]

\* ActivateCredential { id, credential: refreshed }
activate_message(t) ==
  [kind |-> "act", id |-> t.id, n |-> t.n, res |-> "ok", cred |-> t.cred]

\* ops.enqueue_refresh(cred): the send fails once the receiver is gone
TaskEnqueue(t) ==
  /\ t \in tasks
  /\ t.phase = "spawned"
  /\ IF pipeOpen
       THEN /\ seq' = seq + 1
            /\ tasks' = (tasks \ {t}) \cup
                 {[t EXCEPT !.phase = "waiting", !.n = seq + 1]}
            /\ UNCHANGED hist
       ELSE /\ tasks' = tasks \ {t}
            /\ hist' = [hist EXCEPT !.failed = @ \cup {t.k}]
            /\ UNCHANGED seq
  /\ UNCHANGED <<now, rows, manager, jobs, inbox, spent, pipeOpen>>
  /\ FrozenHistory

\* rx_done.await: the job's result, or the channel closed without one
TaskResult(t, res) ==
  /\ t \in tasks
  /\ t.phase = "waiting"
  /\ pipeOpen \/ res = "closed"
  /\ tasks' = IF after_outcome(res) = "dropped" THEN tasks \ {t}
              ELSE (tasks \ {t}) \cup
                     {[t EXCEPT !.phase = after_outcome(res),
                                !.cred = IF res = "ok"
                                           THEN Refreshed(t.cred, t.n, now)
                                           ELSE t.cred]}
  /\ hist' = IF res = "ok" THEN [hist EXCEPT !.refreshed = @ \cup {t.k}]
             ELSE [hist EXCEPT !.failed = @ \cup {t.k}]
  /\ UNCHANGED <<now, rows, manager, jobs, inbox, seq, spent, pipeOpen>>
  /\ FrozenHistory

\* ops.upsert(refreshed.clone(), true): Ok(id), or Err and the task ends
TaskUpsert(t, ok) ==
  /\ t \in tasks
  /\ t.phase = "refreshed"
  /\ IF ok
       THEN LET id == upsert_id(rows, t.cred) IN
            /\ rows' = upsert(rows, t.cred, TRUE)
            /\ tasks' = (tasks \ {t}) \cup
                 {[t EXCEPT !.phase = "stored", !.id = id]}
            /\ hist' = [hist EXCEPT !.upserted = @ \cup
                          {[k |-> t.k, id |-> id, cred |-> rows'[id].cred]}]
       ELSE /\ tasks' = tasks \ {t}
            /\ hist' = [hist EXCEPT !.unsaved = @ \cup {t.k}]
            /\ UNCHANGED rows
  /\ UNCHANGED <<now, manager, jobs, inbox, seq, spent, pipeOpen>>
  /\ FrozenHistory

\* ractor::cast!(myself, ActivateCredential { id, credential })
TaskCast(t) ==
  LET msg == activate_message(t) IN
  /\ t \in tasks
  /\ t.phase = "stored"
  /\ tasks' = tasks \ {t}
  /\ inbox' = inbox \cup {msg}
  /\ hist' = [hist EXCEPT !.cast = @ \cup
                {[k |-> t.k, id |-> msg.id, cred |-> msg.cred]}]
  /\ UNCHANGED <<now, rows, manager, jobs, seq, spent, pipeOpen>>
  /\ FrozenHistory

\* the pipeline's receiver goes away
ReceiverGone ==
  /\ pipeOpen
  /\ pipeOpen' = FALSE
  /\ UNCHANGED <<now, rows, manager, jobs, tasks, inbox, seq, spent, hist>>
  /\ FrozenHistory

NextSubmit ==
  \/ \E pids \in (SUBSET Projects) \ {{}} : SubmitBatch(pids)
  \/ \E t \in tasks : TaskEnqueue(t)
  \/ \E t \in tasks, res \in JobResults : TaskResult(t, res)
  \/ \E t \in tasks, ok \in BOOLEAN : TaskUpsert(t, ok)
  \/ \E t \in tasks : TaskCast(t)
  \/ \E x \in inbox : ActivateCredential(x) /\ UNCHANGED hist /\ FrozenHistory
  \/ ReceiverGone
  \/ Tick /\ UNCHANGED hist /\ FrozenHistory

SpecSubmit == InitSubmit /\ [][NextSubmit]_vars

\* the step is the actor handling SubmitCredentials
SubmitHandled == hist'.count # hist.count

ActivationsInOrder ==
  /\ \A c \in hist.cast : c \in hist.upserted /\ c.k \in hist.refreshed
  /\ \A u \in hist.upserted :
       /\ u.k \in hist.refreshed
       /\ u.cred.at # 0
  /\ \A x \in inbox : \E c \in hist.cast : c.id = x.id /\ c.cred = x.cred

(* C31: ActivateCredential{id, cred} is cast only after the credential's   *)
(* onboarding refresh succeeded and its upsert returned; id is the id that *)
(* upsert returned and cred the refreshed credential it persisted; and the *)
(* actor handles SubmitCredentials without a refresh or a store call: the  *)
(* step leaves the table, the manager, the mailbox and the job counter as  *)
(* they were.                                                              *)
ActivateAfterUpsert ==
  /\ []ActivationsInOrder
  /\ [][SubmitHandled =>
          /\ UNCHANGED <<rows, manager, inbox, seq, jobs>>
          /\ \A t \in tasks' \ tasks : t.phase = "spawned"]_vars

\* two tasks of one batch, the second one activated before the first
ActivateWitness ==
  /\ Cardinality(hist.cast) = 2
  /\ \E x \in inbox : \E c \in hist.cast : x.id = c.id /\ x.cred = c.cred /\ c.k = 1
  /\ \E c \in hist.cast : c.k = 2 /\ contains(manager, c.id)
                          /\ manager.records[c.id] = c.cred

Gone == hist.failed \cup hist.unsaved

\* the step ends a task whose job was not enqueued or did not succeed
JobFailed == hist'.failed # hist.failed

(* C39: a submitted credential whose onboarding job cannot be enqueued or  *)
(* fails, or whose result channel closes, is dropped without effect: the   *)
(* table, the mailbox and the manager stay as they were and no             *)
(* ActivateCredential is ever cast for it; nor is one cast for a           *)
(* credential whose upsert failed after a successful refresh.              *)
FailedSubmissionDropped ==
  /\ [](/\ \A t \in tasks : t.k \notin Gone
        /\ \A c \in hist.cast \cup hist.upserted : c.k \notin Gone)
  /\ [][JobFailed => UNCHANGED <<rows, manager, inbox>>]_vars
  /\ [][hist'.unsaved # hist.unsaved => UNCHANGED <<rows, manager, inbox>>]_vars

\* one task was dropped at the enqueue, one by its job's failure and one by
\* its upsert
FailedSubmissionWitness ==
  /\ Cardinality(hist.failed) = 2
  /\ hist.unsaved # {}
  /\ ~pipeOpen
  /\ tasks = {}

----------------------------------------------------------------------------
(***************************************************************************)
(* SpecDrain: the worker task of GoogleOauthService::new until it stops.   *)
(* pipe is the pipeline as in SpecPipe; hist is the sequence of outcomes   *)
(* the stream yielded, each [n, kind, delivered]: the job, Success or      *)
(* Failed, and whether send_refresh_complete accepted it.                  *)
(***************************************************************************)
MaxJobs == 3          \* jobs sent to the pipeline before it stops

OutcomeKinds == {"Success", "Failed"}

InitDrain ==
  /\ now = 0
  /\ rows = <<>>
  /\ manager = EmptyManager
  /\ jobs = {}
  /\ tasks = {}
  /\ inbox = {}
  /\ seq = 0
  /\ spent = 0
  /\ pipeOpen = TRUE
  /\ NothingObserved
  /\ hist = <<>>
  /\ \E configured \in 0..MaxConc :
       pipe = [configured |-> configured, chan |-> <<>>, sent |-> 0,
               flying |-> {}, permits |-> BURST, refills |-> 0, out |-> {},
               senders |-> TRUE, actor |-> TRUE, stopped |-> FALSE]

\* a worker loop that goes on after a send that failed
breaks_never(sent_ok) == FALSE

\* if let Err(e) = handle.send_refresh_complete(outcome) { break; }
breaks(sent_ok) == ~sent_ok

\* match instruction.execute(http).await { Ok(()) => Success, Err(e) => Failed }
RefreshOutcome(n, result) ==
  [n |-> n, kind |-> IF result = "ok" THEN "Success" ELSE "Failed"]

DrainSend == pipe.sent < MaxJobs /\ Send

\* execute ends with result; the stream yields the outcome, the loop sends it
EmitOutcome(f, result) ==
  LET outcome == RefreshOutcome(f.n, result) IN
  /\ ~pipe.stopped
  /\ f.phase = "execute"
  /\ pipe' = [pipe EXCEPT !.flying = @ \ {f},
                          !.out = @ \cup {f.n},
                          !.stopped = breaks(pipe.actor)]
  /\ hist' = Append(hist, [n |-> outcome.n, kind |-> outcome.kind,
                           delivered |-> pipe.actor])
  /\ UNCHANGED now

NextDrain ==
  /\ \/ DrainSend
     \/ Take
     \/ \E f \in pipe.flying : Acquire(f)
     \/ \E f \in pipe.flying, result \in CallResults : EmitOutcome(f, result)
     \/ SendersDropped
     \/ ActorGone
     \/ Drained
  /\ FrozenProgram

\* the worker task is scheduled, a permit is granted when one is there and
\* execute ends: its calls have timeouts and a bounded number of retries
FairDrain ==
  /\ WF_vars(Take /\ FrozenProgram)
  /\ WF_vars((\E f \in pipe.flying : Acquire(f)) /\ FrozenProgram)
  /\ WF_vars((\E f \in pipe.flying, result \in CallResults :
                EmitOutcome(f, result)) /\ FrozenProgram)
  /\ WF_vars(Drained /\ FrozenProgram)

SpecDrain == InitDrain /\ [][NextDrain]_vars /\ FairDrain

Yielded == {hist[i].n : i \in 1..Len(hist)}

Undelivered == {i \in 1..Len(hist) : ~hist[i].delivered}

\* every accepted job is in the channel, in flight or has its one outcome
OneOutcomeEach ==
  /\ \A i, j \in 1..Len(hist) : hist[i].n = hist[j].n => i = j
  /\ \A i \in 1..Len(hist) : hist[i].kind \in OutcomeKinds
  /\ Yielded \cup {f.n : f \in pipe.flying}
       \cup {pipe.chan[i] : i \in 1..Len(pipe.chan)} = 1..pipe.sent
  /\ Len(hist) + Cardinality(pipe.flying) + Len(pipe.chan) = pipe.sent

\* the worker has stopped after the last outcome of a closed and drained
\* channel, or at the first outcome it could not deliver
StoppedCleanly ==
  pipe.stopped =>
    IF Undelivered = {}
      THEN ~pipe.senders /\ Yielded = 1..pipe.sent
      ELSE Undelivered = {Len(hist)}

(* C35: once the job channel is closed the pipeline yields exactly one     *)
(* outcome, Success or Failed, for every job it accepted and then stops;   *)
(* when the receiver of its outcomes is gone it stops at the first outcome *)
(* it cannot deliver and starts no further job.                            *)
PipelineTerminates ==
  /\ [](OneOutcomeEach /\ StoppedCleanly)
  /\ [][pipe.stopped =>
          /\ pipe'.flying = pipe.flying
          /\ pipe'.chan = pipe.chan
          /\ pipe'.permits = pipe.permits
          /\ pipe'.stopped
          /\ hist' = hist]_vars
  /\ (~pipe.senders ~> pipe.stopped)

\* the channel was closed with jobs waiting and in flight, every job got
\* its outcome, some Failed, and the worker stopped
PipelineTerminatesWitness ==
  /\ pipe.stopped
  /\ pipe.actor
  /\ Len(hist) = MaxJobs
  /\ \E i, j \in 1..Len(hist) : hist[i].kind = "Success" /\ hist[j].kind = "Failed"
  /\ hist[1].n # 1

----------------------------------------------------------------------------
(***************************************************************************)
(* SpecMark: the program without the clock and the rate-limit reports,     *)
(* following every Maintain job to its RefreshComplete.  hist records      *)
(*   made     the jobs handle_report_invalid enqueued                      *)
(*   cast     the jobs whose completion task cast RefreshComplete          *)
(*   handled  the jobs whose RefreshComplete the actor handled             *)
(***************************************************************************)
InitMark ==
  /\ InitProgram
  /\ NothingObserved
  /\ hist = [made |-> {}, cast |-> {}, handled |-> {}]

Enqueued == hist' = [hist EXCEPT !.made = @ \cup {j.n : j \in jobs' \ jobs}]

MarkJobFinish ==
  \E j \in jobs, res \in Outcomes :
    JobFinish(j, res) /\ hist' = [hist EXCEPT !.cast = @ \cup {j.n}]

MarkRefreshComplete ==
  \E x \in inbox :
    RefreshComplete(x) /\ hist' = [hist EXCEPT !.handled = @ \cup {x.n}]

NextMark ==
  /\ \/ \E m \in queue_keys : GetCredential(m) /\ Enqueued
     \/ \E id \in KnownIds : ReportInvalid(id) /\ Enqueued
     \/ \E id \in KnownIds : ReportBaned(id) /\ UNCHANGED hist
     \/ \E pids \in (SUBSET Projects) \ {{}} :
          SubmitCredentials(pids) /\ UNCHANGED hist
     \/ MarkJobFinish
     \/ \E t \in tasks, res \in Outcomes : TaskFinish(t, res) /\ UNCHANGED hist
     \/ MarkRefreshComplete
     \/ \E x \in inbox : ActivateCredential(x) /\ UNCHANGED hist
     \/ /\ PipelineStop
        /\ hist' = [hist EXCEPT !.cast = @ \cup {j.n : j \in jobs}]
  /\ FrozenHistory

\* the pipeline answers or drops every job it holds, and the actor handles
\* the messages in its mailbox
FairMark ==
  /\ WF_vars(MarkJobFinish /\ FrozenHistory)
  /\ WF_vars(MarkRefreshComplete /\ FrozenHistory)

SpecMark == InitMark /\ [][NextMark]_vars /\ FairMark

Waiting(n) == \E j \in jobs : j.n = n

Cast(n) == \E x \in inbox : x.kind = "rc" /\ x.n = n

\* a job is in the pipeline, or its one RefreshComplete is in the mailbox,
\* or that message was handled
OneCompletionEach ==
  \A n \in hist.made :
    /\ Waiting(n) <=> n \notin hist.cast
    /\ Cast(n) <=> (n \in hist.cast /\ n \notin hist.handled)
    /\ Cardinality({x \in inbox : x.kind = "rc" /\ x.n = n}) <= 1

(* C36: every id placed in the refreshing set eventually leaves it: each   *)
(* refresh job enqueued by an invalid report gets exactly one              *)
(* RefreshComplete, which the actor eventually handles, also when the      *)
(* pipeline answers with an error, drops the job or has stopped.           *)
RefreshingEventuallyLeaves ==
  /\ []OneCompletionEach
  /\ [][\A x \in inbox' \ inbox :
          x.kind = "rc" => (x.n \notin hist.cast /\ Waiting(x.n))]_vars
  /\ \A n \in 1..MaxEvents : Waiting(n) ~> (n \in hist.handled)
  /\ \A id \in CredIds :
       is_refreshing(manager, id) ~> ~is_refreshing(manager, id)

\* the pipeline stopped with a job in it, the job's RefreshComplete carried
\* the closed channel's error and the id is back in the queues
RefreshingLeavesWitness ==
  \E id \in KnownIds :
    /\ ~pipeOpen
    /\ hist.handled # {}
    /\ hist.handled = hist.made
    /\ contains(manager, id)
    /\ manager.records[id].at = 0
    /\ \A m \in queue_keys : InSeq(id, manager.queues[m])

====
